---- MODULE Spec2Model ----
(***************************************************************************)
(* Model of the smart-sheet backend: the extractive summarizer            *)
(* (services/summarizer.py, utils/text_processor.py) and the markdown     *)
(* conversion endpoint (routes/routes.py, services/markdown_converter.py).*)
(*                                                                         *)
(* A Python string is a sequence of tokens [k |-> kind, n |-> characters]. *)
(* A token is a word, a whitespace character, a punctuation character or  *)
(* the start of a URL ("http://x"); n is the number of characters it       *)
(* stands for, so that len(), slicing and the 100/500 character limits     *)
(* are computed in characters.                                             *)
(***************************************************************************)
EXTENDS Integers, Sequences, FiniteSets, TLC

(***************************************************************************)
(* Bounds of the model                                                     *)
(***************************************************************************)
\* characters of one word of the input texts
WordLen == 24
\* number of blocks an input text is made of
MaxBlocks == 2
\* fixed-point scale of the sentence scores (a score s stands for s/Scale)
Scale == 1000

(***************************************************************************)
(* Program constants                                                       *)
(***************************************************************************)
ShortTextLimit == 100
FallbackChars == 500
FallbackWordCap == 100
ConciseMin == 30
ConciseMax == 200
DetailedMin == 50
DetailedMax == 500
ConciseFallbackBudget == 100
DetailedFallbackBudget == 200
NLargestFallback == 5
SelectFallback == 3

(***************************************************************************)
(* Strings as token sequences                                              *)
(***************************************************************************)
ContentWords == {"a", "b", "c"}
StopWords == {"the"}
WordKinds == ContentWords \cup StopWords
SpaceKinds == {" ", "\n"}
UrlKind == "http://x"

\* the characters of the tokens of more than one character ("fence" is three backticks)
KindLen ==
  "http://x" :> 8 @@ "&amp;#10;" :> 9 @@ "&#10;" :> 5 @@ "..." :> 3 @@ "](" :> 2 @@
    "def" :> 3 @@ "class" :> 5 @@ "function" :> 8 @@ "if" :> 2 @@ "for" :> 3 @@
    "while" :> 5 @@ "try" :> 3 @@ "except" :> 6 @@ "import" :> 6 @@ "from" :> 4 @@
    "return" :> 6 @@ "print" :> 5 @@ "var" :> 3 @@ "let" :> 3 @@ "const" :> 5 @@
    "async" :> 5 @@ "await" :> 5 @@ "public" :> 6 @@ "private" :> 7 @@ "static" :> 6 @@
    "void" :> 4 @@ "int" :> 3 @@ "float" :> 5 @@ "string" :> 6 @@ "bool" :> 4 @@
    "True" :> 4 @@ "False" :> 5 @@ "None" :> 4 @@ "null" :> 4 @@ "undefined" :> 9 @@
    "this" :> 4 @@ "self" :> 4 @@ "lambda" :> 6 @@ "map" :> 3 @@ "filter" :> 6 @@
    "reduce" :> 6 @@ "and" :> 3 @@ "or" :> 2 @@ "but" :> 3 @@ "that" :> 4 @@ "with" :> 4 @@
    "by" :> 2 @@ "as" :> 2 @@ "on" :> 2 @@ "export" :> 6 @@ "interface" :> 9 @@ "type" :> 4 @@
    "args" :> 4 @@ "Console" :> 7 @@ "WriteLine" :> 9 @@ "namespace" :> 9 @@ "include" :> 7 @@
    "printf" :> 6 @@ "scanf" :> 5 @@ "malloc" :> 6 @@ "cout" :> 4 @@ "cin" :> 3 @@
    "vector" :> 6 @@ "SELECT" :> 6 @@ "INSERT" :> 6 @@ "UPDATE" :> 6 @@ "DELETE" :> 6 @@
    "FROM" :> 4 @@ "WHERE" :> 5 @@ "JOIN" :> 4 @@ "select" :> 6 @@ "chmod" :> 5 @@
    "chown" :> 5 @@ "sudo" :> 4 @@ "apt" :> 3 @@ "yum" :> 3 @@ "brew" :> 4 @@ "<a>" :> 3 @@
    "</a>" :> 4 @@ "<a/>" :> 4 @@ "py" :> 2 @@ "js" :> 2 @@ "ts" :> 2 @@ "html" :> 4 @@
    "css" :> 3 @@ "java" :> 4 @@ "csharp" :> 6 @@ "cpp" :> 3 @@ "sql" :> 3 @@ "bash" :> 4 @@
    "//" :> 2 @@ "/*" :> 2 @@ "fence" :> 3

Tok(k) ==
  [k |-> k,
   n |-> IF k \in WordKinds THEN WordLen
         ELSE IF k \in DOMAIN KindLen THEN KindLen[k]
         ELSE 1]

IsSpace(t) == t.k \in SpaceKinds
IsWord(t) == t.k \in WordKinds
IsUrl(t) == t.k = UrlKind

RECURSIVE CharLen(_)
CharLen(s) == IF s = <<>> THEN 0 ELSE Head(s).n + CharLen(Tail(s))

RECURSIVE LStrip(_)
LStrip(s) == IF s = <<>> THEN <<>>
             ELSE IF IsSpace(Head(s)) THEN LStrip(Tail(s)) ELSE s

RECURSIVE RStrip(_)
RStrip(s) == IF s = <<>> THEN <<>>
             ELSE IF IsSpace(s[Len(s)]) THEN RStrip(SubSeq(s, 1, Len(s) - 1)) ELSE s

\* str.strip()
Strip(s) == RStrip(LStrip(s))

\* s[:n], n in characters; a token cut in the middle keeps its kind
RECURSIVE Slice(_, _)
Slice(s, n) ==
  IF s = <<>> \/ n <= 0 THEN <<>>
  ELSE IF Head(s).n <= n THEN <<Head(s)>> \o Slice(Tail(s), n - Head(s).n)
  ELSE <<[k |-> Head(s).k, n |-> n]>>

\* " ".join(parts)
RECURSIVE Join(_)
Join(parts) ==
  IF parts = <<>> THEN <<>>
  ELSE IF Len(parts) = 1 THEN parts[1]
  ELSE parts[1] \o <<Tok(" ")>> \o Join(Tail(parts))

Max(a, b) == IF a >= b THEN a ELSE b
Min(a, b) == IF a <= b THEN a ELSE b

(***************************************************************************)
(* utils/text_processor.py: clean_text                                     *)
(***************************************************************************)
RECURSIVE DropSpaces(_)
DropSpaces(s) == IF s # <<>> /\ IsSpace(Head(s)) THEN DropSpaces(Tail(s)) ELSE s

\* re.sub(r"\s+", " ", text)
RECURSIVE CollapseSpaces(_)
CollapseSpaces(s) ==
  IF s = <<>> THEN <<>>
  ELSE IF IsSpace(Head(s)) THEN <<Tok(" ")>> \o CollapseSpaces(DropSpaces(s))
  ELSE <<Head(s)>> \o CollapseSpaces(Tail(s))

ClosingPunct == {".", ",", ";", ":", "!", "?", ")"}

\* re.sub(r"\s+([.,;:!?)])", r"\1", text)
RECURSIVE FixSpaceBeforePunct(_)
FixSpaceBeforePunct(s) ==
  IF s = <<>> THEN <<>>
  ELSE IF IsSpace(Head(s))
       THEN LET rest == DropSpaces(s) IN
            IF rest # <<>> /\ Head(rest).k \in ClosingPunct
            THEN <<Head(rest)>> \o FixSpaceBeforePunct(Tail(rest))
            ELSE SubSeq(s, 1, Len(s) - Len(rest)) \o FixSpaceBeforePunct(rest)
  ELSE <<Head(s)>> \o FixSpaceBeforePunct(Tail(s))

\* re.sub(r"(\()\s+", r"\1", text)
RECURSIVE FixSpaceAfterParen(_)
FixSpaceAfterParen(s) ==
  IF s = <<>> THEN <<>>
  ELSE IF Head(s).k = "(" THEN <<Head(s)>> \o FixSpaceAfterParen(DropSpaces(Tail(s)))
  ELSE <<Head(s)>> \o FixSpaceAfterParen(Tail(s))

RepeatPunct == {".", ",", "!", "?"}

RECURSIVE DropRepeatPunct(_)
DropRepeatPunct(s) ==
  IF s # <<>> /\ Head(s).k \in RepeatPunct THEN DropRepeatPunct(Tail(s)) ELSE s

\* re.sub(r"([.,!?]){2,}", r"\1", text): a run of two or more is replaced by its last character
RECURSIVE CollapsePunct(_)
CollapsePunct(s) ==
  IF s = <<>> THEN <<>>
  ELSE IF Head(s).k \in RepeatPunct
       THEN LET rest == DropRepeatPunct(s)
                run == Len(s) - Len(rest)
            IN <<s[run]>> \o CollapsePunct(rest)
  ELSE <<Head(s)>> \o CollapsePunct(Tail(s))

RECURSIVE DropNonSpaces(_)
DropNonSpaces(s) == IF s # <<>> /\ ~IsSpace(Head(s)) THEN DropNonSpaces(Tail(s)) ELSE s

\* re.sub(r"https?://\S+", "", text): the URL and everything up to the next whitespace
RECURSIVE RemoveUrls(_)
RemoveUrls(s) ==
  IF s = <<>> THEN <<>>
  ELSE IF IsUrl(Head(s)) THEN RemoveUrls(DropNonSpaces(s))
  ELSE <<Head(s)>> \o RemoveUrls(Tail(s))

\* clean_text without the URL step
clean_text_KeepUrls(t) ==
  IF t = <<>> THEN <<>>
  ELSE Strip(CollapseSpaces(CollapsePunct(
         FixSpaceAfterParen(FixSpaceBeforePunct(CollapseSpaces(t))))))

clean_text(t) ==
  IF t = <<>> THEN <<>>
  ELSE Strip(CollapseSpaces(RemoveUrls(CollapsePunct(
         FixSpaceAfterParen(FixSpaceBeforePunct(CollapseSpaces(t)))))))

(***************************************************************************)
(* nltk.tokenize as the program uses it.  sent_tokenize ends a sentence    *)
(* after ".", "!" or "?" followed by whitespace; word_tokenize splits at   *)
(* whitespace, sets brackets, ",", "!", "?" and a sentence-final "." apart *)
(* as tokens of their own, and splits "http://x" into "http", ":", "//x".  *)
(***************************************************************************)
Terminators == {".", "!", "?"}

Stripped(cur) == IF Strip(cur) = <<>> THEN <<>> ELSE <<Strip(cur)>>

RECURSIVE SentSplit(_, _)
SentSplit(s, cur) ==
  IF s = <<>> THEN Stripped(cur)
  ELSE IF Head(s).k \in Terminators /\ Len(s) > 1 /\ IsSpace(s[2])
       THEN Stripped(Append(cur, Head(s))) \o SentSplit(DropSpaces(Tail(s)), <<>>)
  ELSE SentSplit(Tail(s), Append(cur, Head(s)))

sent_tokenize(t) == SentSplit(t, <<>>)

\* [s.strip() for s in re.split(r"[.!?]+", cleaned_text) if s.strip()]
RECURSIVE RegexSplit(_, _)
RegexSplit(s, cur) ==
  IF s = <<>> THEN Stripped(cur)
  ELSE IF Head(s).k \in Terminators THEN Stripped(cur) \o RegexSplit(Tail(s), <<>>)
  ELSE RegexSplit(Tail(s), Append(cur, Head(s)))

regex_sentences(t) == RegexSplit(t, <<>>)

\* One token of word_tokenize: w is the word when the token is one alphanumeric
\* word ("" otherwise), alpha says whether it holds a letter.
WordToken(cur) ==
  [w |-> IF Len(cur) = 1 /\ IsWord(cur[1]) THEN cur[1].k ELSE "",
   alpha |-> \E i \in 1..Len(cur) : IsWord(cur[i]) \/ IsUrl(cur[i])]

Flush(cur) == IF cur = <<>> THEN <<>> ELSE <<WordToken(cur)>>

SplitPunct == {",", "!", "?", "(", ")", ";", ":", "..."}

RECURSIVE WordSplit(_, _)
WordSplit(s, cur) ==
  IF s = <<>> THEN Flush(cur)
  ELSE LET t == Head(s)
           r == Tail(s)
       IN IF IsSpace(t) THEN Flush(cur) \o WordSplit(r, <<>>)
          ELSE IF t.k \in SplitPunct
                  \/ (t.k = "." /\ (r = <<>> \/ IsSpace(Head(r)) \/ Head(r).k = "."))
               THEN Flush(cur) \o <<[w |-> "", alpha |-> FALSE]>> \o WordSplit(r, <<>>)
          ELSE IF IsUrl(t)
               THEN Flush(cur) \o <<[w |-> "http", alpha |-> TRUE], [w |-> "", alpha |-> FALSE]>>
                    \o WordSplit(r, <<t>>)
          ELSE WordSplit(r, Append(cur, t))

word_tokenize(t) == WordSplit(t, <<>>)

\* re.findall(r"\b\w+\b", text): the words alone
RECURSIVE regex_words(_)
regex_words(s) ==
  IF s = <<>> THEN <<>>
  ELSE IF IsWord(Head(s)) THEN <<[w |-> Head(s).k, alpha |-> TRUE]>> \o regex_words(Tail(s))
  ELSE IF IsUrl(Head(s))
       THEN <<[w |-> "http", alpha |-> TRUE], [w |-> "x", alpha |-> TRUE]>> \o regex_words(Tail(s))
  ELSE regex_words(Tail(s))

\* utils/text_processor.py: count_words
count_words(t) ==
  IF t = <<>> THEN 0
  ELSE LET words == word_tokenize(t)
       IN Cardinality({i \in 1..Len(words) : words[i].alpha})

\* len(text.split()): the maximal runs of non-whitespace characters
RECURSIVE SplitCount(_)
SplitCount(s) ==
  IF s = <<>> THEN 0
  ELSE IF IsSpace(Head(s)) THEN SplitCount(DropSpaces(s))
  ELSE 1 + SplitCount(DropNonSpaces(s))

(***************************************************************************)
(* services/summarizer.py: _score_sentences.  Sentences are numbered from  *)
(* 1 here and from 0 in the code; scores are fixed-point with Scale.       *)
(***************************************************************************)
stop_words == StopWords

RECURSIVE Occurrences(_, _)
Occurrences(words, w) ==
  IF words = <<>> THEN 0
  ELSE (IF Head(words).w = w THEN 1 ELSE 0) + Occurrences(Tail(words), w)

\* the keys of FreqDist(word for word in words if word.isalnum() and word not in stop_words)
FreqWords(words) ==
  {words[i].w : i \in {j \in 1..Len(words) : words[j].w # "" /\ words[j].w \notin stop_words}}

MaxOf(S) == CHOOSE m \in S : \A x \in S : x <= m

RECURSIVE SqrtSearch(_, _, _)
SqrtSearch(lo, hi, x) ==
  IF lo >= hi THEN lo
  ELSE LET mid == (lo + hi + 1) \div 2
       IN IF mid * mid <= x THEN SqrtSearch(mid, hi, x) ELSE SqrtSearch(lo, mid - 1, x)

\* floor of the square root
ISqrt(x) == SqrtSearch(0, 46340, x)

\* 0.95 ** i (concise) or 0.98 ** i (detailed), times Scale
RECURSIVE PositionWeight(_, _)
PositionWeight(i, summary_type) ==
  IF i = 0 THEN Scale
  ELSE (PositionWeight(i - 1, summary_type)
          * (IF summary_type = "concise" THEN 95 ELSE 98)) \div 100

RECURSIVE SumFreq(_, _, _, _)
SumFreq(sent_words, all_words, keys, max_freq) ==
  IF sent_words = <<>> THEN 0
  ELSE (IF Head(sent_words).w \in keys
        THEN (Occurrences(all_words, Head(sent_words).w) * Scale) \div max_freq
        ELSE 0)
       + SumFreq(Tail(sent_words), all_words, keys, max_freq)

EqualWeights(sentences) == [i \in 1..Len(sentences) |-> Scale]

\* fault: "none"; "word_tokenize" (nltk raises, the regex fallback is used);
\* "inner" (any other exception inside the method's try)
score_sentences(sentences, summary_type, fault) ==
  IF fault = "inner" THEN EqualWeights(sentences)
  ELSE LET tokenize(t) == IF fault = "word_tokenize" THEN regex_words(t) ELSE word_tokenize(t)
           words == tokenize(Join(sentences))
           keys == FreqWords(words)
           max_freq == IF keys = {} THEN 1
                       ELSE MaxOf({Occurrences(words, w) : w \in keys})
       IN [i \in 1..Len(sentences) |->
             LET sent_words == tokenize(sentences[i])
                 raw == SumFreq(sent_words, words, keys, max_freq)
                 normal == IF Len(sent_words) > 0
                           THEN (raw * Scale) \div ISqrt(Len(sent_words) * Scale * Scale)
                           ELSE raw
             IN (normal * PositionWeight(i - 1, summary_type)) \div Scale]

(***************************************************************************)
(* services/summarizer.py: _select_top_sentences                           *)
(***************************************************************************)
\* heapq.nlargest(n, scores, key=scores.get): by score descending, ties in key order
RECURSIVE RankDescending(_, _)
RankDescending(S, scores) ==
  IF S = {} THEN <<>>
  ELSE LET best == CHOOSE i \in S :
                     \A j \in S : scores[i] > scores[j] \/ (scores[i] = scores[j] /\ i <= j)
       IN <<best>> \o RankDescending(S \ {best}, scores)

\* the two best indices alone
nlargest_BestTwo(n, scores) ==
  LET ranked == RankDescending(DOMAIN scores, scores)
  IN SubSeq(ranked, 1, Min(2, Len(ranked)))

nlargest(n, scores) ==
  LET ranked == RankDescending(DOMAIN scores, scores)
  IN SubSeq(ranked, 1, Min(n, Len(ranked)))

Range(seq) == {seq[i] : i \in 1..Len(seq)}

RECURSIVE AscendingOf(_)
AscendingOf(S) ==
  IF S = {} THEN <<>>
  ELSE LET least == CHOOSE i \in S : \A j \in S : i <= j
       IN <<least>> \o AscendingOf(S \ {least})

\* the list left in ranking order
SortIndices_Unsorted(indices) == indices

\* list.sort() of a list of distinct indices
SortIndices(indices) == AscendingOf(Range(indices))

\* the loop over top_sentence_indices: add sentences while the word count fits, stop at the first that does not
RECURSIVE TakeWithinBudget(_, _, _, _, _)
TakeWithinBudget(indices, sentences, max_length, word_count, cw_fault) ==
  IF indices = <<>> THEN <<>>
  ELSE LET i == Head(indices) IN
       IF i > Len(sentences)
       THEN TakeWithinBudget(Tail(indices), sentences, max_length, word_count, cw_fault)
       ELSE LET sentence_word_count == IF cw_fault THEN SplitCount(sentences[i])
                                       ELSE count_words(sentences[i])
            IN IF word_count + sentence_word_count <= max_length
               THEN <<i>> \o TakeWithinBudget(Tail(indices), sentences, max_length,
                                              word_count + sentence_word_count, cw_fault)
               ELSE <<>>

FirstIndices(n) == [i \in 1..n |-> i]

\* fault: "none"; "nlargest" (ranking raises: the first five indices are used);
\* "count_words" (word counting raises: len(sentence.split()) is used);
\* "inner" (any other exception inside the method's try: the first three sentences)
\* The result is the list of the indices of the selected sentences.
select_top_sentences(sentences, sentence_scores, max_length, fault) ==
  IF fault = "inner" THEN FirstIndices(Min(SelectFallback, Len(sentences)))
  ELSE IF sentences = <<>> \/ DOMAIN sentence_scores = {}
       THEN FirstIndices(Min(1, Len(sentences)))
  ELSE LET top_sentence_indices ==
             IF fault = "nlargest" THEN FirstIndices(Min(NLargestFallback, Len(sentences)))
             ELSE nlargest(Len(sentences), sentence_scores)
       IN TakeWithinBudget(SortIndices(top_sentence_indices), sentences, max_length, 0,
                           fault = "count_words")

(***************************************************************************)
(* services/markdown_converter.py.  The texts of the conversion are made   *)
(* of the words "a" and "b", the conjunction "and", the keyword "def", the *)
(* programming keyword "return", the digits, "http://x" and the characters *)
(* "-", "#", ".", "=", "(", ";", "*", "_", " " and "\n"; each word is one    *)
(* token.                                                                  *)
(* The token "fence" is the three backticks that open and close a block.   *)
(* The markdown given to to_text also holds the brackets of a link, "[",   *)
(* "]", "](" and ")", and the entities "&#10;" and "&amp;#10;", each one    *)
(* token.                                                                  *)
(***************************************************************************)
HeadingMaxLen == 60
CodeThreshold == 5

\* separator.join(parts)
RECURSIVE JoinWith(_, _)
JoinWith(separator, parts) ==
  IF parts = <<>> THEN <<>>
  ELSE IF Len(parts) = 1 THEN parts[1]
  ELSE parts[1] \o separator \o JoinWith(separator, Tail(parts))

Newline == <<Tok("\n")>>
BlankLine == <<Tok("\n"), Tok("\n")>>

\* s.split("\n")
RECURSIVE SplitLines(_, _)
SplitLines(s, cur) ==
  IF s = <<>> THEN <<cur>>
  ELSE IF Head(s).k = "\n" THEN <<cur>> \o SplitLines(Tail(s), <<>>)
  ELSE SplitLines(Tail(s), Append(cur, Head(s)))

split_lines(s) == SplitLines(s, <<>>)

\* the index of the last "\n" among the whitespace that s starts with, 0 when there is none
RECURSIVE LastNewline(_, _, _)
LastNewline(s, i, found) ==
  IF i > Len(s) \/ ~IsSpace(s[i]) THEN found
  ELSE LastNewline(s, i + 1, IF s[i].k = "\n" THEN i ELSE found)

\* re.split(r"\n\s*\n", text): a separator runs from a "\n" to the last "\n" of the
\* whitespace that follows it
RECURSIVE SplitParagraphs(_, _)
SplitParagraphs(s, cur) ==
  IF s = <<>> THEN <<cur>>
  ELSE IF Head(s).k = "\n" /\ LastNewline(Tail(s), 1, 0) > 0
       THEN LET rest == Tail(s)
                j == LastNewline(rest, 1, 0)
            IN <<cur>> \o SplitParagraphs(SubSeq(rest, j + 1, Len(rest)), <<>>)
  ELSE SplitParagraphs(Tail(s), Append(cur, Head(s)))

paragraphs(t) == SplitParagraphs(t, <<>>)

\* the alternatives of the patterns of _is_code_block and _detect_language
LanguageConstructs ==
  {"def", "class", "function", "if", "for", "while", "try", "except", "import", "from"}
CommentMarkers == {"#", "//", "/*", "*"}
PythonWords == {"def", "class", "import", "from", "if __name__", "print"}
JavaScriptWords == {"function", "const", "let", "var", "export", "import from", "=>"}
TypeScriptWords == {"interface", "type", "<T>", ":string", ":number", ":boolean"}
JavaWords == {"public", "private", "class", "static", "void"}
JavaNames == {"System.out.println", "String[]", "args"}
CSharpNames == {"Console", "WriteLine", "namespace", "using System"}
CWords == {"include", "printf", "scanf", "malloc", "int main", "void main"}
CppWords == {"std::", "cout", "cin", "vector", "string"}
\* re.IGNORECASE: of the other spellings the texts of the model hold "select"
SqlWords == {"SELECT", "INSERT", "UPDATE", "DELETE", "FROM", "WHERE", "JOIN", "select", "from"}
ShellWords == {"chmod", "chown", "sudo", "apt", "yum", "brew"}
\* the HTML tags of the texts: "<a>", "</a>" and "<a/>"
OpeningTags == {"<a>", "<a/>"}
ClosingTags == {"</a>"}
EmptyTags == {"<a/>"}
BulletMarkers == {"-", "*"}
Numerals == <<"1", "2", "3", "4", "5", "6", "7", "8", "9">>
Digits == {Numerals[i] : i \in 1..Len(Numerals)}
HeadingEnd == {".", ",", ":", ";"}
Conjunctions == {"and", "or", "but", "that", "with", "from", "by", "as", "on"}

ProgrammingKeywords ==
  {"return", "print", "var", "let", "const", "async", "await", "public", "private", "static",
   "void", "int", "float", "string", "bool", "True", "False", "None", "null", "undefined",
   "this", "self", "lambda", "map", "filter", "reduce"}
BracketKinds == {"{", "}", "[", "]", "(", ")", ";", "]("}

\* the tokens made of characters of \w alone; a letter or "_" starts an identifier
IsWordToken(t) ==
  t.k \in WordKinds \cup Conjunctions \cup LanguageConstructs \cup ProgrammingKeywords
            \cup Digits \cup {"_"}
            \cup {"export", "interface", "type", "args", "Console", "WriteLine", "namespace"}
            \cup {"include", "printf", "scanf", "malloc", "cout", "cin", "vector"}
            \cup SqlWords \cup ShellWords
IsIdentifierStart(t) == IsWordToken(t) /\ t.k \notin Digits

\* the tokens that start and end with a character of \w ("http://x" does)
IsWordChar(t) == IsWordToken(t) \/ IsUrl(t)

\* re.search(r"\b(w1|w2|...)\b", s): a token of the kinds between two word boundaries
HasKind(s, kinds) ==
  \E i \in 1..Len(s) :
    /\ s[i].k \in kinds
    /\ (i > 1 => ~IsWordChar(s[i - 1]))
    /\ (i < Len(s) => ~IsWordChar(s[i + 1]))

\* [a-zA-Z_][a-zA-Z0-9_]* ends with the token i
RECURSIVE EndsIdentifier(_, _)
EndsIdentifier(s, i) ==
  /\ i >= 1
  /\ \/ IsUrl(s[i])
     \/ (IsWordToken(s[i]) /\ (IsIdentifierStart(s[i]) \/ EndsIdentifier(s, i - 1)))

\* the index of the last token before i that is no whitespace, 0 when there is none
RECURSIVE BeforeSpaces(_, _)
BeforeSpaces(s, i) ==
  IF i <= 1 THEN 0
  ELSE IF IsSpace(s[i - 1]) THEN BeforeSpaces(s, i - 1) ELSE i - 1

\* re.search(r"[a-zA-Z_][a-zA-Z0-9_]*\s*=\s*", text)
HasAssignment(s) ==
  \E i \in 1..Len(s) : s[i].k = "=" /\ EndsIdentifier(s, BeforeSpaces(s, i))

\* \w*\s*\( starts with the token i
RECURSIVE OpensCall(_, _)
OpensCall(s, i) ==
  /\ i <= Len(s)
  /\ \/ s[i].k = "("
     \/ (IsWordToken(s[i]) /\ OpensCall(s, i + 1))
     \/ (IsSpace(s[i]) /\ Len(DropSpaces(SubSeq(s, i, Len(s)))) > 0
           /\ Head(DropSpaces(SubSeq(s, i, Len(s)))).k = "(")

\* re.search(r"[a-zA-Z_][a-zA-Z0-9_]*\.[a-zA-Z_][a-zA-Z0-9_]*\s*\(", text)
HasMethodCall(s) ==
  \E i \in 2..(Len(s) - 2) :
    /\ s[i].k = "."
    /\ EndsIdentifier(s, i - 1)
    /\ IsIdentifierStart(s[i + 1])
    /\ OpensCall(s, i + 2)

\* re.match(r"^\s{2,}", line)
Indented(line) == Len(line) >= 2 /\ IsSpace(line[1]) /\ IsSpace(line[2])

\* re.search(r"^\s*(#|//|/\*|\*)", text, re.MULTILINE)
HasComment(t) ==
  LET ls == split_lines(t)
  IN \E i \in 1..Len(ls) : LStrip(ls[i]) # <<>> /\ Head(LStrip(ls[i])).k \in CommentMarkers

\* "c" in line, for one of the lines
AnyLineHas(lines, kinds) ==
  \E i \in 1..Len(lines) : \E j \in 1..Len(lines[i]) : lines[i][j].k \in kinds

\* the score of _is_code_block
code_score(t, lines) ==
  (IF HasKind(t, LanguageConstructs) THEN 5 ELSE 0)
    + (IF HasAssignment(t) THEN 3 ELSE 0)
    + (IF \E i \in 1..Len(t) : t[i].k \in BracketKinds THEN 2 ELSE 0)
    + (IF \E i \in 1..Len(lines) : Indented(lines[i]) THEN 3 ELSE 0)
    + Cardinality({keyword \in ProgrammingKeywords : HasKind(t, {keyword})})
    + (IF HasComment(t) THEN 3 ELSE 0)
    + (IF HasMethodCall(t) THEN 4 ELSE 0)
    + (IF Len(lines) >= 2 /\ AnyLineHas(lines, {"="}) /\ AnyLineHas(lines, {".", "..."})
       THEN 2 ELSE 0)

is_code_block(t, lines) == code_score(t, lines) >= CodeThreshold

\* re.search(r"c\s*$", text, re.MULTILINE): a line ends with c and whitespace
LineEndsWith(t, kind) ==
  LET ls == split_lines(t)
  IN \E i \in 1..Len(ls) : RStrip(ls[i]) # <<>> /\ RStrip(ls[i])[Len(RStrip(ls[i]))].k = kind

\* a token that ends with a character of [a-zA-Z-], and one made of them alone
EndsWithLetter(t) == (IsWordToken(t) /\ t.k \notin Digits \cup {"_"}) \/ IsUrl(t) \/ t.k = "-"
IsLetters(t) == (IsWordToken(t) /\ t.k \notin Digits \cup {"_"}) \/ t.k = "-"

\* the index of the first token from i on that is no whitespace, Len(s) + 1 when none
RECURSIVE AfterSpaces(_, _)
AfterSpaces(s, i) ==
  IF i > Len(s) THEN Len(s) + 1
  ELSE IF IsSpace(s[i]) THEN AfterSpaces(s, i + 1) ELSE i

\* [a-zA-Z-]+\s*:\s*[^;]+;\s*} matches from the token i: a property, its value up to the
\* first ";", the closing brace; "http://x" is the property "http" and a value
RECURSIVE IsDeclaration(_, _)
IsDeclaration(s, i) ==
  /\ i <= Len(s)
  /\ LET colon == AfterSpaces(s, i + 1)
         value == IF IsUrl(s[i]) THEN i ELSE colon + 1
         semi == CHOOSE k \in (value + 1)..(Len(s) + 1) :
                   /\ (k <= Len(s) => s[k].k = ";")
                   /\ \A m \in (value + 1)..(k - 1) : s[m].k # ";"
     IN \/ /\ IsUrl(s[i]) \/ (IsLetters(s[i]) /\ colon <= Len(s) /\ s[colon].k = ":")
           /\ (IsUrl(s[i]) \/ (value <= Len(s) /\ s[value].k # ";"))
           /\ semi <= Len(s)
           /\ AfterSpaces(s, semi + 1) <= Len(s)
           /\ s[AfterSpaces(s, semi + 1)].k = "}"
        \/ (IsLetters(s[i]) /\ IsDeclaration(s, i + 1))

\* re.search(r"[a-zA-Z-]+\s*{\s*[a-zA-Z-]+\s*:\s*[^;]+;\s*}", text, re.DOTALL)
HasCssRule(s) ==
  \E i \in 1..Len(s) :
    /\ s[i].k = "{"
    /\ BeforeSpaces(s, i) >= 1
    /\ EndsWithLetter(s[BeforeSpaces(s, i)])
    /\ IsDeclaration(s, AfterSpaces(s, i + 1))

\* re.search(r"<[a-zA-Z]+[^>]*>.*?</[a-zA-Z]+>", text, re.DOTALL) or
\* re.search(r"<[a-zA-Z]+[^>]*/>", text)
HasHtmlElement(s) ==
  \/ \E i \in 1..Len(s) : \E j \in (i + 1)..Len(s) :
       s[i].k \in OpeningTags /\ s[j].k \in ClosingTags
  \/ \E i \in 1..Len(s) : s[i].k \in EmptyTags

\* text.startswith("$") or text.startswith("#!")
StartsLikeShell(s) ==
  \/ (Len(s) >= 1 /\ s[1].k = "$")
  \/ (Len(s) >= 2 /\ s[1].k = "#" /\ s[2].k = "!")

\* the alternative ":string" of the pattern of TypeScript between two word boundaries
HasTypeAnnotation(s) ==
  \E i \in 2..(Len(s) - 1) :
    /\ s[i].k = ":" /\ IsWordChar(s[i - 1]) /\ s[i + 1].k = "string"
    /\ (i + 1 < Len(s) => ~IsWordChar(s[i + 2]))

\* re.search(r"\b(interface|type|<T>|:string|:number|:boolean)\b", text)
IsTypeScript(s) == HasKind(s, TypeScriptWords) \/ HasTypeAnnotation(s)

\* _detect_language: the checks in their order; of the alternatives of the patterns the
\* texts of the model hold the single words.  The token "tag:c" is the tag "c", which is
\* not the word "c" of the texts
detect_language_JavaScriptFirst(t, lines) ==
  IF HasKind(t, JavaScriptWords) \/ LineEndsWith(t, ";")
    THEN IF IsTypeScript(t) THEN <<Tok("ts")>> ELSE <<Tok("js")>>
  ELSE IF HasKind(t, PythonWords) \/ LineEndsWith(t, ":") THEN <<Tok("py")>>
  ELSE IF HasHtmlElement(t) THEN <<Tok("html")>>
  ELSE IF HasCssRule(t) THEN <<Tok("css")>>
  ELSE IF HasKind(t, JavaWords) /\ LineEndsWith(t, "{") /\ HasKind(t, JavaNames)
    THEN <<Tok("java")>>
  ELSE IF HasKind(t, JavaWords) /\ LineEndsWith(t, "{") /\ HasKind(t, CSharpNames)
    THEN <<Tok("csharp")>>
  ELSE IF HasKind(t, CWords)
    THEN IF HasKind(t, CppWords) THEN <<Tok("cpp")>> ELSE <<Tok("tag:c")>>
  ELSE IF HasKind(t, SqlWords) THEN <<Tok("sql")>>
  ELSE IF StartsLikeShell(t) \/ HasKind(t, ShellWords) THEN <<Tok("bash")>>
  ELSE <<>>

detect_language(t, lines) ==
  IF HasKind(t, PythonWords) \/ LineEndsWith(t, ":") THEN <<Tok("py")>>
  ELSE IF HasKind(t, JavaScriptWords) \/ LineEndsWith(t, ";")
    THEN IF IsTypeScript(t) THEN <<Tok("ts")>> ELSE <<Tok("js")>>
  ELSE IF HasHtmlElement(t) THEN <<Tok("html")>>
  ELSE IF HasCssRule(t) THEN <<Tok("css")>>
  ELSE IF HasKind(t, JavaWords) /\ LineEndsWith(t, "{") /\ HasKind(t, JavaNames)
    THEN <<Tok("java")>>
  ELSE IF HasKind(t, JavaWords) /\ LineEndsWith(t, "{") /\ HasKind(t, CSharpNames)
    THEN <<Tok("csharp")>>
  ELSE IF HasKind(t, CWords)
    THEN IF HasKind(t, CppWords) THEN <<Tok("cpp")>> ELSE <<Tok("tag:c")>>
  ELSE IF HasKind(t, SqlWords) THEN <<Tok("sql")>>
  ELSE IF StartsLikeShell(t) \/ HasKind(t, ShellWords) THEN <<Tok("bash")>>
  ELSE <<>>

\* re.match(r"^\s*[-*]\s", line)
IsBullet(line) ==
  LET l == LStrip(line)
  IN Len(l) >= 2 /\ l[1].k \in BulletMarkers /\ IsSpace(l[2])

RECURSIVE DropDigits(_)
DropDigits(s) == IF s # <<>> /\ Head(s).k \in Digits THEN DropDigits(Tail(s)) ELSE s

\* re.match(r"^\s*\d+[.)]\s", line)
IsNumbered(line) ==
  LET l == LStrip(line)
      rest == DropDigits(l)
  IN Len(rest) < Len(l) /\ Len(rest) >= 2 /\ rest[1].k \in {".", ")"} /\ IsSpace(rest[2])

\* all(re.match(...) for line in lines if line.strip())
AllBullets(lines) == \A i \in 1..Len(lines) : Strip(lines[i]) # <<>> => IsBullet(lines[i])
AllNumbered(lines) == \A i \in 1..Len(lines) : Strip(lines[i]) # <<>> => IsNumbered(lines[i])

\* short line, no ending punctuation, no ending conjunction
LooksLikeHeading(line) ==
  /\ CharLen(line) < HeadingMaxLen
  /\ line[Len(line)].k \notin HeadingEnd
  /\ ~(line[Len(line)].k \in Conjunctions /\ (Len(line) > 1 => ~IsWordChar(line[Len(line) - 1])))

\* the loop over the lines of a paragraph that is neither code nor a list
processed_lines(lines) ==
  [i \in 1..Len(lines) |->
     LET line == Strip(lines[i])
     IN IF line = <<>> THEN <<>>
        ELSE IF LooksLikeHeading(line)
             THEN IF i = 1 THEN <<Tok("#"), Tok(" ")>> \o line
                  ELSE <<Tok("#"), Tok("#"), Tok(" ")>> \o line
        ELSE line]

\* the loop body with the list checks before the code check
format_paragraph_ListsFirst(para) ==
  LET lines == split_lines(Strip(para))
  IN IF AllBullets(lines) THEN para
     ELSE IF AllNumbered(lines) THEN para
     ELSE IF is_code_block(para, lines)
       THEN <<Tok("fence")>> \o detect_language(para, lines) \o Newline \o para
              \o Newline \o <<Tok("fence")>>
     ELSE JoinWith(Newline, processed_lines(lines))

\* the loop body without the list checks
format_paragraph_NoLists(para) ==
  LET lines == split_lines(Strip(para))
  IN IF is_code_block(para, lines)
       THEN <<Tok("fence")>> \o detect_language(para, lines) \o Newline \o para
              \o Newline \o <<Tok("fence")>>
     ELSE JoinWith(Newline, processed_lines(lines))

\* the body of the loop over the paragraphs
format_paragraph(para) ==
  LET lines == split_lines(Strip(para))
  IN IF is_code_block(para, lines)
       THEN <<Tok("fence")>> \o detect_language(para, lines) \o Newline \o para
              \o Newline \o <<Tok("fence")>>
     ELSE IF AllBullets(lines) THEN para
     ELSE IF AllNumbered(lines) THEN para
     ELSE JoinWith(Newline, processed_lines(lines))

RECURSIVE Flatten(_)
Flatten(seqs) == IF seqs = <<>> THEN <<>> ELSE Head(seqs) \o Flatten(Tail(seqs))

\* re.sub(r"(https?://[^\s]+)", r"[\1](\1)", markdown_text)
RECURSIVE FormatUrls(_)
FormatUrls(s) ==
  IF s = <<>> THEN <<>>
  ELSE IF IsUrl(Head(s))
       THEN LET rest == DropNonSpaces(s)
                url == SubSeq(s, 1, Len(s) - Len(rest))
            IN <<Tok("[")>> \o url \o <<Tok("](")>> \o url \o <<Tok(")")>> \o FormatUrls(rest)
  ELSE <<Head(s)>> \o FormatUrls(Tail(s))

\* the index of the first token of s that is the mark or a "\n", 0 when there is none
RECURSIVE NextMark(_, _, _)
NextMark(s, i, mark) ==
  IF i > Len(s) THEN 0
  ELSE IF s[i].k \in {mark, "\n"} THEN i
  ELSE NextMark(s, i + 1, mark)

\* re.sub(r"(?<!m)m([^m\n]+)m(?!m)", r"o\1o", text) for the character m, o = opening;
\* prev is the character before s
RECURSIVE Emphasize(_, _, _, _)
Emphasize(s, prev, mark, opening) ==
  IF s = <<>> THEN <<>>
  ELSE LET rest == Tail(s)
           j == NextMark(rest, 1, mark)
       IN IF /\ Head(s).k = mark /\ prev # mark
             /\ j >= 2 /\ rest[j].k = mark
             /\ (j < Len(rest) => rest[j + 1].k # mark)
          THEN opening \o SubSeq(rest, 1, j - 1) \o opening
                 \o Emphasize(SubSeq(rest, j + 1, Len(rest)), mark, mark, opening)
          ELSE <<Head(s)>> \o Emphasize(rest, Head(s).k, mark, opening)

\* re.sub(r"<(\w+)[^>]*>", r"`<\1>`", text), then re.sub(r"</(\w+)>", r"`</\1>`", text);
\* "tick" is the backtick
FormatTags(s) ==
  Flatten([i \in 1..Len(s) |->
    IF s[i].k \in OpeningTags \cup ClosingTags
      THEN <<Tok("tick"), (IF s[i].k \in EmptyTags THEN Tok("<a>") ELSE s[i]), Tok("tick")>>
    ELSE <<s[i]>>])

\* _enhance_formatting: "*x*" becomes "**x**", then "_x_" becomes "*x*", then the URLs
\* become links and the tags code spans; the substitution of the backticks changes nothing
enhance_formatting(markdown_text) ==
  FormatTags(FormatUrls(Emphasize(Emphasize(markdown_text, "", "*", <<Tok("*"), Tok("*")>>),
                                  "", "_", <<Tok("*")>>)))

\* to_markdown without text.strip()
to_markdown_NoStrip(t) ==
  LET paras == paragraphs(t)
  IN enhance_formatting(
       JoinWith(BlankLine, [i \in 1..Len(paras) |-> format_paragraph(paras[i])]))

to_markdown(t) ==
  LET paras == paragraphs(Strip(t))
  IN enhance_formatting(
       JoinWith(BlankLine, [i \in 1..Len(paras) |-> format_paragraph(paras[i])]))

(***************************************************************************)
(* to_text renders with the markdown package and reads the HTML with       *)
(* BeautifulSoup.  For the texts of the model: blocks are separated by     *)
(* blank lines; a line that starts with "#" is a heading of its own; a     *)
(* block that starts with a list marker is a list, each marked line an     *)
(* item, a marked line indented by four spaces an item of a list nested in *)
(* the item before it, and every other line the continuation of the item   *)
(* before it; a block "[label]: http://x" defines a reference and renders  *)
(* nothing; any other block is a paragraph.  The elements of the HTML are  *)
(* separated by "\n", as are a list and its items.                         *)
(*                                                                         *)
(* The converter holds one markdown.Markdown instance (line 11) and        *)
(* to_text calls its convert(), which does not reset the instance: the     *)
(* references a document defines stay in md.references.  Every reference   *)
(* of the model points to "http://x", so md.references is the set of the   *)
(* labels defined.                                                         *)
(***************************************************************************)
\* markdown.Markdown(extensions=[...]) after construction
FreshMarkdown == [references |-> {}]

\* "[label]: http://x"
IsReferenceDefinition(block) ==
  /\ Len(block) = 6
  /\ block[1].k = "[" /\ IsWord(block[2]) /\ block[3].k = "]" /\ block[4].k = ":"
  /\ block[5].k = " " /\ IsUrl(block[6])

\* the labels the document defines
ReferencesOf(src) ==
  LET blocks == paragraphs(src)
  IN {blocks[i][2].k : i \in {j \in 1..Len(blocks) : IsReferenceDefinition(blocks[j])}}

\* self.md after self.md.convert(markdown_text); a blank source returns at once
md_convert(markdown_text, self_md) ==
  [references |-> self_md.references \cup ReferencesOf(Strip(markdown_text))]

\* the "#" characters a line starts with
RECURSIVE DropHashes(_)
DropHashes(s) == IF s # <<>> /\ Head(s).k = "#" THEN DropHashes(Tail(s)) ELSE s

IsHeadingLine(line) == line # <<>> /\ Head(line).k = "#"

\* the groups of lines of a block: a heading line alone, the other lines together
RECURSIVE GroupLines(_, _)
GroupLines(lines, cur) ==
  LET flush == IF cur = <<>> THEN <<>> ELSE <<cur>>
  IN IF lines = <<>> THEN flush
     ELSE IF IsHeadingLine(Head(lines))
          THEN flush \o << <<Head(lines)>> >> \o GroupLines(Tail(lines), <<>>)
     ELSE GroupLines(Tail(lines), Append(cur, Head(lines)))

\* the elements of the document, each as its lines
elements(src) ==
  LET blocks == SelectSeq(paragraphs(src), LAMBDA b : ~IsReferenceDefinition(b))
  IN Flatten([i \in 1..Len(blocks) |-> GroupLines(split_lines(blocks[i]), <<>>)])

\* a NavigableString and a Tag of the parsed HTML
StringNode(s) == [tag |-> "", href |-> <<>>, kids |-> <<>>, text |-> s]
TagNode(tag, href, kids) == [tag |-> tag, href |-> href, kids |-> kids, text |-> <<>>]

\* the position of the first token of kind k, 0 when there is none
Find(s, k) ==
  IF \E i \in 1..Len(s) : s[i].k = k
  THEN CHOOSE i \in 1..Len(s) : s[i].k = k /\ \A j \in 1..(i - 1) : s[j].k # k
  ELSE 0

\* the position of the "*" that closes the emphasis s starts with, 0 when s starts with none
ClosingStar(s) ==
  IF Len(s) >= 3 /\ s[1].k = "*" /\ ~IsSpace(s[2]) /\ s[2].k # "*"
  THEN LET next == Find(Tail(s), "*") IN IF next = 0 THEN 0 ELSE 1 + next
  ELSE 0

NoLink == [len |-> 0, inner |-> <<>>, href |-> <<>>]

\* the link s starts with: "[text](http://x)", or "[text][label]" with a defined label
LinkAt(s, refs) ==
  LET close == Find(s, "](")
      bracket == Find(s, "]")
      plain(inner) == \A i \in 1..Len(inner) : inner[i].k \notin {"[", "]", "]("}
  IN IF s = <<>> \/ s[1].k # "[" THEN NoLink
     ELSE IF /\ close >= 3 /\ Len(s) >= close + 2
             /\ plain(SubSeq(s, 2, close - 1))
             /\ IsUrl(s[close + 1]) /\ s[close + 2].k = ")"
          THEN [len |-> close + 2, inner |-> SubSeq(s, 2, close - 1), href |-> <<s[close + 1]>>]
     ELSE IF /\ bracket >= 3 /\ Len(s) >= bracket + 3
             /\ plain(SubSeq(s, 2, bracket - 1))
             /\ s[bracket + 1].k = "[" /\ s[bracket + 3].k = "]"
             /\ s[bracket + 2].k \in refs
          THEN [len |-> bracket + 3, inner |-> SubSeq(s, 2, bracket - 1), href |-> <<Tok(UrlKind)>>]
     ELSE NoLink

\* the parser of BeautifulSoup resolves the entities of the HTML: "&amp;#10;" is the
\* text "&#10;", "&#10;" is a newline
Decode(t) ==
  IF t.k = "&amp;#10;" THEN Tok("&#10;")
  ELSE IF t.k = "&#10;" THEN Tok("\n")
  ELSE t

\* the nodes of inline text: strings, <em> and <a href>
RECURSIVE ParseInline(_, _)
ParseInline(s, refs) ==
  IF s = <<>> THEN <<>>
  ELSE LET link == LinkAt(s, refs)
           close == ClosingStar(s)
       IN IF link.len > 0
            THEN <<TagNode("a", link.href, ParseInline(link.inner, refs))>>
                   \o ParseInline(SubSeq(s, link.len + 1, Len(s)), refs)
          ELSE IF close > 0
            THEN <<TagNode("em", <<>>, ParseInline(SubSeq(s, 2, close - 1), refs))>>
                   \o ParseInline(SubSeq(s, close + 1, Len(s)), refs)
          ELSE LET rest == ParseInline(Tail(s), refs)
               IN IF rest # <<>> /\ rest[1].tag = ""
                    THEN <<StringNode(<<Decode(Head(s))>> \o rest[1].text)>> \o Tail(rest)
                  ELSE <<StringNode(<<Decode(Head(s))>>)>> \o rest

\* tag.string is not None: the node is a string, or has one child that has a string
RECURSIVE HasString(_)
HasString(node) ==
  IF node.tag = "" THEN TRUE
  ELSE Len(node.kids) = 1 /\ HasString(node.kids[1])

\* get_text() of the nodes after the loop over the links (lines 325-328)
RECURSIVE GetText(_)
GetText(nodes) ==
  IF nodes = <<>> THEN <<>>
  ELSE LET node == Head(nodes)
           own == IF node.tag = "" THEN node.text
                  ELSE IF node.tag = "a" /\ HasString(node) /\ node.href # <<>>
                    THEN GetText(node.kids) \o <<Tok(" "), Tok("(")>> \o node.href \o <<Tok(")")>>
                  ELSE GetText(node.kids)
       IN own \o GetText(Tail(nodes))

InlineText(s, refs) == GetText(ParseInline(s, refs))

IsMarked(line) == IsBullet(line) \/ IsNumbered(line)

\* the text of a list item line after its marker
ItemText(line) ==
  LET l == LStrip(line)
  IN IF IsBullet(line) THEN LStrip(Tail(l)) ELSE LStrip(Tail(DropDigits(l)))

\* the indentation of a nested list: a tab of the markdown package, four spaces
Tab == <<Tok(" "), Tok(" "), Tok(" "), Tok(" ")>>

IsNested(line) ==
  /\ Len(line) > Len(Tab)
  /\ SubSeq(line, 1, Len(Tab)) = Tab
  /\ IsMarked(line)

\* the items of a list block: the text of each, the items of the list nested in it
RECURSIVE ListItems(_, _)
ListItems(lines, items) ==
  IF lines = <<>> THEN items
  ELSE LET line == Head(lines)
           last == Len(items)
       IN IF items # <<>> /\ IsNested(line)
            THEN ListItems(Tail(lines),
                   [items EXCEPT ![last] =
                      [@ EXCEPT !.sub = Append(@, ItemText(line)),
                                !.numbered = IF items[last].sub = <<>> THEN IsNumbered(line)
                                             ELSE @]])
          ELSE IF IsMarked(line) \/ items = <<>>
            THEN ListItems(Tail(lines),
                   Append(items, [text |-> ItemText(line), sub |-> <<>>, numbered |-> FALSE]))
          ELSE ListItems(Tail(lines),
                 [items EXCEPT ![last] = [@ EXCEPT !.text = @ \o Newline \o Strip(line)]])

\* the <li> of an item, as Tag.__eq__ compares it: its contents
ItemTag(item, refs) ==
  [kids |-> ParseInline(item.text, refs),
   sub |-> [j \in 1..Len(item.sub) |-> ParseInline(item.sub[j], refs)],
   numbered |-> item.numbered]

\* tag.parent.find_all("li"): the items of the list and of the lists nested in it
RECURSIVE FindAllLi(_, _)
FindAllLi(items, refs) ==
  IF items = <<>> THEN <<>>
  ELSE <<ItemTag(Head(items), refs)>>
         \o [j \in 1..Len(Head(items).sub) |->
               ItemTag([text |-> Head(items).sub[j], sub |-> <<>>, numbered |-> FALSE], refs)]
         \o FindAllLi(Tail(items), refs)

\* index = i + 1 for the first li of find_all that is equal to the tag
ItemIndex(found, tag) ==
  CHOOSE i \in 1..Len(found) : found[i] = tag /\ \A j \in 1..(i - 1) : found[j] # tag

Prefix(numbered, found, tag) ==
  IF numbered THEN <<Tok(Numerals[ItemIndex(found, tag)]), Tok("."), Tok(" ")>>
  ELSE <<Tok("-"), Tok(" ")>>

\* the text of a list after insert_before and insert_after on its items
ListText(lines, refs) ==
  LET items == ListItems(lines, <<>>)
      numbered == IsNumbered(lines[1])
      found == FindAllLi(items, refs)
      leaf(s) == [text |-> s, sub |-> <<>>, numbered |-> FALSE]
      nested(item) ==
        IF item.sub = <<>> THEN <<>>
        ELSE LET inner == FindAllLi([j \in 1..Len(item.sub) |-> leaf(item.sub[j])], refs)
             IN Newline
                  \o Flatten([j \in 1..Len(item.sub) |->
                       Prefix(item.numbered, inner, inner[j]) \o InlineText(item.sub[j], refs)
                         \o Newline \o Newline])
                  \o Newline
  IN Newline \o Flatten([k \in 1..Len(items) |->
       Prefix(numbered, found, ItemTag(items[k], refs)) \o InlineText(items[k].text, refs)
         \o nested(items[k]) \o Newline \o Newline])

\* the text of one element after insert_before and insert_after
ElementText(lines, refs) ==
  IF IsHeadingLine(lines[1])
    THEN BlankLine \o InlineText(Strip(DropHashes(lines[1])), refs) \o Newline
  ELSE IF IsMarked(lines[1]) THEN ListText(lines, refs)
  ELSE Newline \o InlineText(JoinWith(Newline, lines), refs) \o Newline

RECURSIVE DropNewlines(_)
DropNewlines(s) == IF s # <<>> /\ Head(s).k = "\n" THEN DropNewlines(Tail(s)) ELSE s

\* re.sub(r"\n{3,}", "\n\n", text)
RECURSIVE CollapseNewlines(_)
CollapseNewlines(s) ==
  IF s = <<>> THEN <<>>
  ELSE IF Head(s).k = "\n"
       THEN LET rest == DropNewlines(s)
                run == Len(s) - Len(rest)
            IN (IF run >= 3 THEN BlankLine ELSE SubSeq(s, 1, run)) \o CollapseNewlines(rest)
  ELSE <<Head(s)>> \o CollapseNewlines(Tail(s))

\* html.unescape(text)
Unescape(s) == [i \in 1..Len(s) |-> IF s[i].k = "&#10;" THEN Tok("\n") ELSE s[i]]

\* to_text on the instance self_md
to_text(markdown_text, self_md) ==
  LET src == Strip(markdown_text)
      refs == md_convert(markdown_text, self_md).references
      els == elements(src)
  IN IF src = <<>> \/ els = <<>> THEN <<>>
     ELSE Strip(Unescape(CollapseNewlines(
            JoinWith(Newline, [i \in 1..Len(els) |-> ElementText(els[i], refs)]))))

ValidModes == {"to_markdown", "to_text"}

\* convert(text, mode): the value returned or the exception raised, the conversion
\* functions it called and self.md after the call; fault: the markdown package or
\* BeautifulSoup raises
convert_AnyModeToMarkdown(t, mode, fault, self_md) ==
  IF mode = "to_text"
    THEN IF t.type # "str"
           THEN [raised |-> "AttributeError", value |-> <<>>, called |-> {"to_text"}, md |-> self_md]
         ELSE IF fault
           THEN [raised |-> "Exception", value |-> <<>>, called |-> {"to_text"}, md |-> self_md]
         ELSE [raised |-> "", value |-> to_text(t.val, self_md), called |-> {"to_text"},
               md |-> md_convert(t.val, self_md)]
  ELSE IF t.type # "str"
         THEN [raised |-> "AttributeError", value |-> <<>>, called |-> {"to_markdown"}, md |-> self_md]
       ELSE [raised |-> "", value |-> to_markdown(t.val), called |-> {"to_markdown"}, md |-> self_md]

convert(t, mode, fault, self_md) ==
  IF mode = "to_markdown"
    THEN IF t.type # "str"
           THEN [raised |-> "AttributeError", value |-> <<>>, called |-> {"to_markdown"}, md |-> self_md]
         ELSE [raised |-> "", value |-> to_markdown(t.val), called |-> {"to_markdown"}, md |-> self_md]
  ELSE IF mode = "to_text"
    THEN IF t.type # "str"
           THEN [raised |-> "AttributeError", value |-> <<>>, called |-> {"to_text"}, md |-> self_md]
         ELSE IF fault
           THEN [raised |-> "Exception", value |-> <<>>, called |-> {"to_text"}, md |-> self_md]
         ELSE [raised |-> "", value |-> to_text(t.val, self_md), called |-> {"to_text"},
               md |-> md_convert(t.val, self_md)]
  ELSE [raised |-> "Unsupported conversion mode", value |-> <<>>, called |-> {}, md |-> self_md]

(***************************************************************************)
(* Inputs of summarize                                                     *)
(***************************************************************************)
Str(kinds) == [i \in 1..Len(kinds) |-> Tok(kinds[i])]

\* "a b. "
ShortSentence == Str(<<"a", " ", "b", ".", " ">>)
\* "a b c a a b the c a b c. "
LongSentence ==
  Str(<<"a", " ", "b", " ", "c", " ", "a", " ", "a", " ", "b", " ", "the", " ", "c", " ",
        "a", " ", "b", " ", "c", ".", " ">>)
\* "a http://x.c. "
UrlSentence == Str(<<"a", " ", "http://x", ".", "c", ".", " ">>)
\* "( c ) \n!! "
NoisySentence == Str(<<"(", " ", "c", " ", ")", " ", "\n", "!", "!", " ">>)
\* "the the. c a b! "
StopThenContent == Str(<<"the", " ", "the", ".", " ", "c", " ", "a", " ", "b", "!", " ">>)

Blocks == {ShortSentence, LongSentence, UrlSentence, NoisySentence, StopThenContent}

RECURSIVE TextsOf(_)
TextsOf(n) ==
  IF n = 0 THEN {<<>>}
  ELSE LET shorter == TextsOf(n - 1)
       IN shorter \cup {t \o b : t \in {x \in shorter : Len(x) > 0 \/ n = 1}, b \in Blocks}

BlankText == Str(<<" ", "\n">>)

TextValues ==
  {[type |-> "str", val |-> t] : t \in TextsOf(MaxBlocks) \cup {BlankText}}
    \cup {[type |-> ty, val |-> <<>>] : ty \in {"int", "NoneType", "list"}}

MaxLengthValues ==
  {[type |-> "NoneType", val |-> 0], [type |-> "str", val |-> 0]}
    \cup {[type |-> "int", val |-> v] : v \in {0, 1, 4, 9}}

SummaryTypes == {"concise", "detailed"}

(***************************************************************************)
(* Inputs of the conversion                                                *)
(***************************************************************************)
\* characters of the texts a stored record keeps
StoredChars == 5000
\* DATA_TTL, in seconds
DATA_TTL == 3600
\* latest time of a request
MaxNow == 1
\* MAX_RECORDS_PER_TABLE of the configuration (1000 unless the environment sets it)
MAX_RECORDS_PER_TABLE == 2
\* the threads the service can create
MaxThreads == 2
Threads == 1..MaxThreads

\* "a b"
TitleBlock == Str(<<"a", " ", "b">>)
\* "a b.\na and"
ProseBlock == Str(<<"a", " ", "b", ".", "\n", "a", " ", "and">>)
\* "a b a b"
LongLineBlock == Str(<<"a", " ", "b", " ", "a", " ", "b">>)
\* "- a\n- a"
BulletBlock == Str(<<"-", " ", "a", "\n", "-", " ", "a">>)
\* "1. a\n1. b"
NumberedBlock == Str(<<"1", ".", " ", "a", "\n", "1", ".", " ", "b">>)
\* "def a"
CodeBlock == Str(<<"def", " ", "a">>)
\* "a http://x.b"
UrlBlock == Str(<<"a", " ", "http://x", ".", "b">>)
\* "# a"
HashBlock == Str(<<"#", " ", "a">>)

ProseBlocks == {TitleBlock, ProseBlock, LongLineBlock, CodeBlock, UrlBlock, HashBlock}
ListBlocks == {BulletBlock, NumberedBlock}

\* the documents of up to n blocks, separated by blank lines, no list next to a list
RECURSIVE DocumentsOf(_)
DocumentsOf(n) ==
  IF n = 0 THEN {}
  ELSE LET shorter == DocumentsOf(n - 1)
       IN {<<b>> : b \in ProseBlocks \cup ListBlocks}
            \cup shorter
            \cup {Append(d, b) : d \in shorter, b \in ProseBlocks}
            \cup {Append(d, b) : d \in {x \in shorter : x[Len(x)] \in ProseBlocks}, b \in ListBlocks}

BlankTexts == {<<>>, Str(<<" ", "\n">>), Str(<<"\n", "\n">>)}

ConvertTexts ==
  {JoinWith(BlankLine, d) : d \in DocumentsOf(MaxBlocks)}
    \cup {Str(<<" ">>) \o TitleBlock \o Newline}
    \cup BlankTexts

\* the key is not in the request
Absent == [type |-> "absent", val |-> <<>>]
NoMode == "<absent>"

\* data["text"]: a string, a number, null
RequestTexts ==
  {[type |-> "str", val |-> t] : t \in ConvertTexts}
    \cup {[type |-> ty, val |-> <<>>] : ty \in {"int", "NoneType"}}

RequestModes == {"to_markdown", "to_text", "to_html", ""}

\* request.get_json(); no key at all is an empty (or no) body
DataValues == [text : RequestTexts \cup {Absent}, mode : RequestModes \cup {NoMode}]

\* data.get("mode", "to_markdown"), and the default of the parameter of convert
ModeOf(d) == IF d.mode = NoMode THEN "to_markdown" ELSE d.mode

None == <<>>
Some(v) == <<v>>

NoResponse == [status |-> 0, error |-> "", result |-> None, warning |-> ""]

(***************************************************************************)
(* State                                                                   *)
(***************************************************************************)
VARIABLES
  text,              \* argument of summarize
  max_length,        \* argument of summarize
  summary_type,      \* argument of summarize
  pc,                \* position of the call
  cleaned_text,      \* local of summarize
  sentences,         \* local of summarize
  original_word_count, \* local of summarize (-1 before it is set)
  budget,            \* local max_length once it is set (0 before)
  sentence_scores,   \* local of summarize
  summary_sentences, \* local of summarize, as the indices of the sentences
  result,            \* the returned dict
  exc,               \* the exception in flight or escaped ("" when none)
  path,              \* the return statement that produced the result
  invoked,           \* the stages the call has invoked
  faults,            \* the stages that raised during the call
  data,              \* the JSON of the request to /markdown, the arguments of convert
  cpc,               \* position of the conversion
  converted,         \* the value convert returned
  called,            \* the conversion functions that were called
  response,          \* the response of the endpoint, the outcome of convert
  conversions,       \* the table markdown_conversions
  now,               \* datetime.utcnow(), in seconds
  md,                \* markdown_converter.md, the Markdown instance of the converter
  running,           \* cleanup_service.running
  cleanup_thread,    \* cleanup_service.cleanup_thread (None, or the thread)
  worker,            \* the position of each thread running _cleanup_worker
  caller,            \* the position of each thread that calls start() and stop()
  last_call,         \* the call of start() or stop() that returned last
  round,             \* the outcome of the last cleanup round
  summaries,         \* the table summaries
  session,           \* db.session of the requests
  log                \* the messages logged

vars == <<text, max_length, summary_type, pc, cleaned_text, sentences, original_word_count, budget,
          sentence_scores, summary_sentences, result, exc, path, invoked, faults,
          data, cpc, converted, called, response, conversions, now, md,
          running, cleanup_thread, worker, caller, last_call, round, summaries, session, log>>

service == <<running, cleanup_thread, worker, caller, last_call, round>>
storage == <<summaries, session, log>>

web == <<data, cpc, converted, called, response, conversions, now, md, service, storage>>

\* no round yet; of a round, its outcome, its now, the counts of the records deleted
\* as expired and of the records removed as excess
NoRound ==
  [status |-> "none", at |-> 0, summary_deleted |-> 0, markdown_deleted |-> 0,
   summary_excess |-> 0, markdown_excess |-> 0]

\* DataCleanupService() before start(), an empty database
NoService ==
  /\ running = FALSE
  /\ cleanup_thread = None
  /\ worker = [t \in Threads |-> "new"]
  /\ caller = [c \in {"main"} |-> "idle"]
  /\ last_call = ""
  /\ round = NoRound
  /\ summaries = <<>>
  /\ session = "clean"
  /\ log = {}

\* no request to /markdown
NoConversion ==
  /\ data = [text |-> Absent, mode |-> NoMode]
  /\ cpc = "idle"
  /\ converted = <<>>
  /\ called = {}
  /\ response = NoResponse
  /\ conversions = <<>>
  /\ now = 0
  /\ md = FreshMarkdown
  /\ NoService

NoError == "<absent>"
NoResult == [summary |-> <<>>, original_length |-> 0, summary_length |-> 0, error |-> NoError]
NoScores == [i \in {} |-> 0]

Init ==
  /\ text \in TextValues
  /\ max_length \in MaxLengthValues
  /\ summary_type \in SummaryTypes
  /\ pc = "call"
  /\ cleaned_text = <<>>
  /\ sentences = <<>>
  /\ original_word_count = -1
  /\ budget = 0
  /\ sentence_scores = NoScores
  /\ summary_sentences = <<>>
  /\ result = NoResult
  /\ exc = ""
  /\ path = ""
  /\ invoked = {}
  /\ faults = {}
  /\ NoConversion

inputs == <<text, max_length, summary_type>>
locals == <<cleaned_text, sentences, original_word_count, budget, sentence_scores, summary_sentences>>

Return(summary, original_length, summary_length, by) ==
  /\ result' = [summary |-> summary, original_length |-> original_length,
                summary_length |-> summary_length, error |-> NoError]
  /\ path' = by
  /\ pc' = "done"
  /\ exc' = ""

Raise(e) ==
  /\ exc' = e
  /\ pc' = "except"
  /\ UNCHANGED <<result, path>>

Goto(label) ==
  /\ pc' = label
  /\ UNCHANGED <<result, path, exc>>

Flag(fault, name) == IF fault THEN {name} ELSE {}

\* return {"summary": cleaned_text, "original_length": count_words(text),
\*         "summary_length": count_words(cleaned_text)}; count_words raises when nltk does
ReturnCleaned(cleaned, cw_fault, by) ==
  IF cw_fault THEN Raise("LookupError")
  ELSE Return(cleaned, count_words(text.val), count_words(cleaned), by)

\* validation that tests "not text" alone
Validate_NoStripCheck ==
  /\ pc = "call"
  /\ IF text.type # "str" THEN Raise("Text must be a string")
     ELSE IF text.val = <<>> THEN Return(<<>>, 0, 0, "empty")
     ELSE Goto("clean")
  /\ UNCHANGED <<web, inputs, locals, invoked, faults>>

\* lines 153-163: input validation
Validate ==
  /\ pc = "call"
  /\ IF text.type # "str" THEN Raise("Text must be a string")
     ELSE IF text.val = <<>> \/ Strip(text.val) = <<>> THEN Return(<<>>, 0, 0, "empty")
     ELSE Goto("clean")
  /\ UNCHANGED <<web, inputs, locals, invoked, faults>>

\* lines 165-178: cleaning and the short-text return
Clean ==
  /\ pc = "clean"
  /\ \E clean_fault \in BOOLEAN, cw_fault \in BOOLEAN :
       LET cleaned == IF clean_fault THEN text.val ELSE clean_text(text.val)
           short == CharLen(Strip(cleaned)) < ShortTextLimit
       IN /\ cw_fault => short
          /\ cleaned_text' = cleaned
          /\ invoked' = invoked \cup {"clean_text"} \cup Flag(short, "count_words")
          /\ faults' = faults \cup Flag(clean_fault, "clean_text") \cup Flag(cw_fault, "count_words")
          /\ IF short THEN ReturnCleaned(cleaned, cw_fault, "short") ELSE Goto("tokenize")
  /\ UNCHANGED <<web, inputs, sentences, original_word_count, budget, sentence_scores,
                 summary_sentences>>

\* lines 180-202: sentence tokenization and the no-sentence return
Tokenize ==
  /\ pc = "tokenize"
  /\ \E st_fault \in BOOLEAN, cw_fault \in BOOLEAN :
       LET tokenized == IF st_fault THEN <<>> ELSE sent_tokenize(cleaned_text)
           sents == IF tokenized = <<>> THEN regex_sentences(cleaned_text) ELSE tokenized
       IN /\ cw_fault => sents = <<>>
          /\ sentences' = sents
          /\ invoked' = invoked \cup {"sent_tokenize"} \cup Flag(sents = <<>>, "count_words")
          /\ faults' = faults \cup Flag(st_fault, "sent_tokenize") \cup Flag(cw_fault, "count_words")
          /\ IF sents = <<>> THEN ReturnCleaned(cleaned_text, cw_fault, "no_sentences")
             ELSE Goto("budget")
  /\ UNCHANGED <<web, inputs, cleaned_text, original_word_count, budget, sentence_scores,
                 summary_sentences>>

\* lines 205-211: int(max_length), None when it is not a positive integer (0 stands for None)
ValidMaxLength(ml) == IF ml.type = "int" /\ ml.val > 0 THEN ml.val ELSE 0

\* the clamp with its bounds exchanged
DerivedMaxLength_Swapped(word_count, stype) ==
  IF stype = "concise"
  THEN Min(ConciseMin, Max((word_count * 3) \div 10, ConciseMax))
  ELSE Min(DetailedMin, Max((word_count * 6) \div 10, DetailedMax))

\* lines 215-221: the budget derived from the word count of the cleaned text
DerivedMaxLength(word_count, stype) ==
  IF stype = "concise"
  THEN Max(ConciseMin, Min((word_count * 3) \div 10, ConciseMax))
  ELSE Max(DetailedMin, Min((word_count * 6) \div 10, DetailedMax))

\* line 225
FallbackMaxLength(stype) ==
  IF stype = "concise" THEN ConciseFallbackBudget ELSE DetailedFallbackBudget

\* lines 204-225: the word budget
Budget ==
  /\ pc = "budget"
  /\ \E cw_fault \in BOOLEAN :
       LET given == ValidMaxLength(max_length) IN
         /\ cw_fault => given = 0
         /\ original_word_count' = IF given = 0 /\ ~cw_fault THEN count_words(cleaned_text)
                                   ELSE original_word_count
         /\ budget' = IF given # 0 THEN given
                      ELSE IF cw_fault THEN FallbackMaxLength(summary_type)
                      ELSE DerivedMaxLength(original_word_count', summary_type)
         /\ invoked' = invoked \cup Flag(given = 0, "count_words")
         /\ faults' = faults \cup Flag(cw_fault, "count_words")
  /\ Goto("score")
  /\ UNCHANGED <<web, inputs, cleaned_text, sentences, sentence_scores, summary_sentences>>

\* lines 227-233: scoring; "raise" is the stage raising into summarize's handler
Score ==
  /\ pc = "score"
  /\ \E fault \in {"none", "word_tokenize", "inner", "raise"} :
       /\ sentence_scores' = IF fault = "raise" THEN EqualWeights(sentences)
                             ELSE score_sentences(sentences, summary_type, fault)
       /\ faults' = faults \cup Flag(fault # "none", "score")
  /\ invoked' = invoked \cup {"score"}
  /\ Goto("select")
  /\ UNCHANGED <<web, inputs, cleaned_text, sentences, original_word_count, budget,
                 summary_sentences>>

\* lines 242-251: summarize's own fallback when the selection stage raises
RECURSIVE FirstThatFit(_, _, _, _)
FirstThatFit(i, sents, limit, words_so_far) ==
  IF i > Len(sents) THEN <<>>
  ELSE LET words_in_sent == count_words(sents[i]) IN
       IF words_so_far + words_in_sent <= limit
       THEN <<i>> \o FirstThatFit(i + 1, sents, limit, words_so_far + words_in_sent)
       ELSE <<>>

\* the selection left as it is
EnsureFirst_Nothing(selected, sents) == selected

\* lines 253-257: at least the first sentence
EnsureFirst(selected, sents) ==
  IF selected = <<>> /\ sents # <<>> THEN <<1>> ELSE selected

\* lines 235-257: selection; "raise" is the stage raising into summarize's handler,
\* "raise_count_words" is count_words raising inside that handler
Select ==
  /\ pc = "select"
  /\ \E fault \in {"none", "nlargest", "count_words", "inner", "raise", "raise_count_words"} :
       /\ invoked' = invoked \cup {"select"}
       /\ faults' = faults \cup Flag(fault # "none", "select")
                           \cup Flag(fault \in {"count_words", "raise_count_words"}, "count_words")
       /\ IF fault = "raise_count_words"
          THEN Raise("LookupError") /\ UNCHANGED summary_sentences
          ELSE /\ summary_sentences' =
                    EnsureFirst(IF fault = "raise"
                                THEN FirstThatFit(1, sentences, budget, 0)
                                ELSE select_top_sentences(sentences, sentence_scores, budget, fault),
                                sentences)
               /\ Goto("finish")
  /\ UNCHANGED <<web, inputs, cleaned_text, sentences, original_word_count, budget,
                 sentence_scores>>

\* [sentences[i] for the selected i]
Selected(sents, indices) == [j \in 1..Len(indices) |-> sents[indices[j]]]

\* lines 262-268
NonEmptySummary(summary, cleaned) ==
  IF Strip(summary) = <<>>
  THEN (IF CharLen(cleaned) > FallbackChars
        THEN Slice(cleaned, FallbackChars) \o <<Tok("...")>>
        ELSE cleaned)
  ELSE summary

\* lines 259-274: join and return
Finish ==
  /\ pc = "finish"
  /\ \E cw_fault \in BOOLEAN :
       LET summary == NonEmptySummary(Join(Selected(sentences, summary_sentences)), cleaned_text)
       IN /\ faults' = faults \cup Flag(cw_fault, "count_words")
          /\ IF cw_fault THEN Raise("LookupError")
             ELSE Return(summary, count_words(text.val), count_words(summary), "summary")
  /\ invoked' = invoked \cup {"count_words"}
  /\ UNCHANGED <<web, inputs, locals>>

\* a handler for ValueError alone: the LookupError of nltk leaves summarize
Except_ValueErrorOnly ==
  /\ pc = "except"
  /\ IF text.type = "str" /\ exc = "Text must be a string"
     THEN /\ result' = [summary |-> text.val, original_length |-> SplitCount(text.val),
                        summary_length |-> Min(SplitCount(text.val), FallbackWordCap),
                        error |-> "Summarization failed: " \o exc]
          /\ path' = "catch_all"
          /\ pc' = "done"
          /\ exc' = ""
     ELSE /\ pc' = "raised"
          /\ UNCHANGED <<result, path, exc>>
  /\ UNCHANGED <<web, inputs, locals, invoked, faults>>

\* lines 276-284: the terminal handler.  len(text) raises for a number and for None,
\* text.split() for a list: the handler's own exception leaves summarize.
Except ==
  /\ pc = "except"
  /\ IF text.type = "str"
     THEN /\ result' =
               [summary |-> IF CharLen(text.val) > FallbackChars
                            THEN Slice(text.val, FallbackChars) \o <<Tok("...")>>
                            ELSE text.val,
                original_length |-> SplitCount(text.val),
                summary_length |-> Min(SplitCount(text.val), FallbackWordCap),
                error |-> "Summarization failed: " \o exc]
          /\ path' = "catch_all"
          /\ pc' = "done"
          /\ exc' = ""
     ELSE /\ exc' = IF text.type = "list" THEN "AttributeError" ELSE "TypeError"
          /\ pc' = "raised"
          /\ UNCHANGED <<result, path>>
  /\ UNCHANGED <<web, inputs, locals, invoked, faults>>

Next == Validate \/ Clean \/ Tokenize \/ Budget \/ Score \/ Select \/ Finish \/ Except

Spec == Init /\ [][Next]_vars

(***************************************************************************)
(* The derived budget as a function of the word count (lines 215-221)      *)
(***************************************************************************)
\* largest word count of a cleaned text
MaxWordCount == 900

InitBudget ==
  /\ text = [type |-> "str", val |-> <<>>]
  /\ max_length = [type |-> "NoneType", val |-> 0]
  /\ summary_type \in SummaryTypes \cup {"other"}
  /\ pc = "derive"
  /\ cleaned_text = <<>>
  /\ sentences = <<>>
  /\ original_word_count \in 0..MaxWordCount
  /\ budget = 0
  /\ sentence_scores = NoScores
  /\ summary_sentences = <<>>
  /\ result = NoResult
  /\ exc = ""
  /\ path = ""
  /\ invoked = {}
  /\ faults = {}
  /\ NoConversion

DeriveBudget ==
  /\ pc = "derive"
  /\ budget' = DerivedMaxLength(original_word_count, summary_type)
  /\ pc' = "derived"
  /\ UNCHANGED <<web, inputs, cleaned_text, sentences, original_word_count, sentence_scores,
                 summary_sentences, result, exc, path, invoked, faults>>

NextBudget == DeriveBudget

SpecBudget == InitBudget /\ [][NextBudget]_vars

(***************************************************************************)
(* routes/routes.py: convert_markdown, and a direct call of convert        *)
(***************************************************************************)
InitConvert ==
  /\ text = [type |-> "str", val |-> <<>>]
  /\ max_length = [type |-> "NoneType", val |-> 0]
  /\ summary_type = "concise"
  /\ pc = "idle"
  /\ cleaned_text = <<>>
  /\ sentences = <<>>
  /\ original_word_count = -1
  /\ budget = 0
  /\ sentence_scores = NoScores
  /\ summary_sentences = <<>>
  /\ result = NoResult
  /\ exc = ""
  /\ path = ""
  /\ invoked = {}
  /\ faults = {}
  /\ data \in DataValues
  /\ cpc \in {"request"} \cup (IF data.text = Absent THEN {} ELSE {"call"})
  /\ converted = <<>>
  /\ called = {}
  /\ response = NoResponse
  /\ conversions = <<>>
  /\ now \in 0..MaxNow
  /\ md = FreshMarkdown
  /\ NoService

summarizer == <<inputs, locals, pc, result, exc, path, invoked, faults, service, storage>>

\* return jsonify({"error": error}), status
Respond(status, error) ==
  /\ response' = [status |-> status, error |-> error, result |-> None, warning |-> ""]
  /\ cpc' = "responded"

\* lines 141-156 with the handler of lines 200-203: text.strip() of a value that is
\* not a string raises AttributeError
ValidateRequest ==
  /\ cpc = "request"
  /\ IF data.text = Absent /\ data.mode = NoMode THEN Respond(400, "Invalid JSON data provided")
     ELSE IF data.text = Absent THEN Respond(400, "No text provided")
     ELSE IF data.text.type # "str" THEN Respond(500, "Server error")
     ELSE IF Strip(data.text.val) = <<>> THEN Respond(400, "Empty text provided")
     ELSE IF ModeOf(data) \notin ValidModes THEN Respond(400, "Invalid conversion mode")
     ELSE cpc' = "convert" /\ UNCHANGED response
  /\ UNCHANGED <<summarizer, data, converted, called, conversions, now, md>>

\* lines 158-163
ConvertText ==
  /\ cpc = "convert"
  /\ \E fault \in BOOLEAN :
       \E r \in {convert(data.text, ModeOf(data), fault, md)} :
          /\ called' = r.called
          /\ md' = r.md
          /\ IF r.raised # ""
               THEN Respond(500, "Error converting text") /\ UNCHANGED converted
             ELSE converted' = r.value /\ cpc' = "store" /\ UNCHANGED response
  /\ UNCHANGED <<summarizer, data, conversions, now>>

\* the id of the next record of a table
NextId(table) == 1 + MaxOf({0} \cup {table[i].id : i \in 1..Len(table)})

\* the session left as it is after the failure
StoreConversion_NoRollback ==
  /\ cpc = "store"
  /\ \E fault \in BOOLEAN :
       IF fault \/ session # "clean"
         THEN /\ response' = [status |-> 200, error |-> "", result |-> Some(converted),
                              warning |-> "Conversion completed but not saved to database"]
              /\ session' = "failed"
              /\ log' = log \cup {"Database error"}
              /\ UNCHANGED conversions
       ELSE /\ conversions' = Append(conversions,
                 [id |-> NextId(conversions),
                  original_text |-> Slice(data.text.val, StoredChars),
                  converted_text |-> Slice(converted, StoredChars),
                  conversion_type |-> ModeOf(data),
                  created_at |-> now,
                  expires_at |-> Some(now + DATA_TTL)])
            /\ response' = [status |-> 200, error |-> "", result |-> Some(converted),
                            warning |-> ""]
            /\ UNCHANGED <<session, log>>
  /\ cpc' = "responded"
  /\ UNCHANGED <<inputs, locals, pc, result, exc, path, invoked, faults, service, summaries,
                 data, converted, called, now, md>>

\* lines 165-198; fault: the session raises, the handler rolls it back.  A session that
\* was not rolled back raises at its next use.
StoreConversion ==
  /\ cpc = "store"
  /\ \E fault \in BOOLEAN :
       IF fault \/ session # "clean"
         THEN /\ response' = [status |-> 200, error |-> "", result |-> Some(converted),
                              warning |-> "Conversion completed but not saved to database"]
              /\ session' = "clean"
              /\ log' = log \cup {"Database error"}
              /\ UNCHANGED conversions
       ELSE /\ conversions' = Append(conversions,
                 [id |-> NextId(conversions),
                  original_text |-> Slice(data.text.val, StoredChars),
                  converted_text |-> Slice(converted, StoredChars),
                  conversion_type |-> ModeOf(data),
                  created_at |-> now,
                  expires_at |-> Some(now + DATA_TTL)])
            /\ response' = [status |-> 200, error |-> "", result |-> Some(converted),
                            warning |-> ""]
            /\ UNCHANGED <<session, log>>
  /\ cpc' = "responded"
  /\ UNCHANGED <<inputs, locals, pc, result, exc, path, invoked, faults, service, summaries,
                 data, converted, called, now, md>>

\* markdown_converter.convert(text, mode) called by another caller than the endpoint
CallConvert ==
  /\ cpc = "call"
  /\ \E fault \in BOOLEAN :
       \E r \in {convert(data.text, ModeOf(data), fault, md)} :
          /\ called' = r.called
          /\ md' = r.md
          /\ IF r.raised # ""
               THEN /\ response' = [NoResponse EXCEPT !.error = r.raised]
                    /\ cpc' = "raised"
                    /\ UNCHANGED converted
             ELSE /\ response' = [NoResponse EXCEPT !.result = Some(r.value)]
                  /\ cpc' = "returned"
                  /\ converted' = r.value
  /\ UNCHANGED <<summarizer, data, conversions, now>>

NextConvert == ValidateRequest \/ ConvertText \/ StoreConversion \/ CallConvert

SpecConvert == InitConvert /\ [][NextConvert]_vars

(***************************************************************************)
(* to_markdown over documents of the paragraphs it tells apart              *)
(***************************************************************************)
\* "a b.\na b"
LateHeadingBlock == Str(<<"a", " ", "b", ".", "\n", "a", " ", "b">>)
\* "- a http://x"
BulletUrlBlock == Str(<<"-", " ", "a", " ", "http://x">>)
\* "- def a\n- a"
CodeListBlock == Str(<<"-", " ", "def", " ", "a", "\n", "-", " ", "a">>)
\* "* a\n  * a"
StarListBlock == Str(<<"*", " ", "a", "\n", " ", " ", "*", " ", "a">>)
\* "http://x_a_b"
UnderscoreUrlBlock == Str(<<"http://x", "_", "a", "_", "b">>)
\* "a = b.a\nreturn a;"
ScriptBlock == Str(<<"a", " ", "=", " ", "b", ".", "a", "\n", "return", " ", "a", ";">>)
\* "a.b(a"
CallBlock == Str(<<"a", ".", "b", "(", "a">>)
\* "a *b*"
EmphasisBlock == Str(<<"a", " ", "*", "b", "*">>)

MarkdownBlocks ==
  {TitleBlock, ProseBlock, LateHeadingBlock, BulletBlock, NumberedBlock, BulletUrlBlock,
   CodeBlock, CodeListBlock, StarListBlock, UrlBlock, UnderscoreUrlBlock, ScriptBlock,
   CallBlock, EmphasisBlock, HashBlock}

\* the documents of 1 to n of the blocks, separated by blank lines
RECURSIVE MarkdownDocumentsOf(_)
MarkdownDocumentsOf(n) ==
  IF n = 0 THEN {}
  ELSE LET shorter == MarkdownDocumentsOf(n - 1)
       IN {<<b>> : b \in MarkdownBlocks} \cup shorter
            \cup {Append(d, b) : d \in shorter, b \in MarkdownBlocks}

MarkdownTexts ==
  {JoinWith(BlankLine, d) : d \in MarkdownDocumentsOf(MaxBlocks)} \cup BlankTexts

\* no call of summarize
NoSummary ==
  /\ text = [type |-> "str", val |-> <<>>]
  /\ max_length = [type |-> "NoneType", val |-> 0]
  /\ summary_type = "concise"
  /\ pc = "idle"
  /\ cleaned_text = <<>>
  /\ sentences = <<>>
  /\ original_word_count = -1
  /\ budget = 0
  /\ sentence_scores = NoScores
  /\ summary_sentences = <<>>
  /\ result = NoResult
  /\ exc = ""
  /\ path = ""
  /\ invoked = {}
  /\ faults = {}

\* convert(text, "to_markdown") is called
InitMarkdown ==
  /\ NoSummary
  /\ NoService
  /\ data \in {[text |-> [type |-> "str", val |-> t], mode |-> "to_markdown"] : t \in MarkdownTexts}
  /\ cpc = "call"
  /\ converted = <<>>
  /\ called = {}
  /\ response = NoResponse
  /\ conversions = <<>>
  /\ now = 0
  /\ md = FreshMarkdown

NextMarkdown == CallConvert

SpecMarkdown == InitMarkdown /\ [][NextMarkdown]_vars

(***************************************************************************)
(* to_text over markdown documents of links, entities and lists            *)
(***************************************************************************)
\* "[a](http://x)"
LinkBlock == Str(<<"[", "a", "](", "http://x", ")">>)
\* "[*a*](http://x)"
EmphasisLinkBlock == Str(<<"[", "*", "a", "*", "](", "http://x", ")">>)
\* "[*a* b](http://x)"
MixedLinkBlock == Str(<<"[", "*", "a", "*", " ", "b", "](", "http://x", ")">>)
\* "a&#10;&#10;&#10;b"
CharRefBlock == Str(<<"a", "&#10;", "&#10;", "&#10;", "b">>)
\* "a&amp;#10;&amp;#10;&amp;#10;b"
EscapedCharRefBlock == Str(<<"a", "&amp;#10;", "&amp;#10;", "&amp;#10;", "b">>)
\* "1. a\n2. a"
RepeatedItemsBlock == Str(<<"1", ".", " ", "a", "\n", "2", ".", " ", "a">>)
\* "1. a\n    1. b\n2. a"
NestedListBlock ==
  Str(<<"1", ".", " ", "a", "\n", " ", " ", " ", " ", "1", ".", " ", "b", "\n", "2", ".", " ", "a">>)
\* "[b]: http://x"
ReferenceBlock == Str(<<"[", "b", "]", ":", " ", "http://x">>)
\* "[a][b]"
ReferenceLinkBlock == Str(<<"[", "a", "]", "[", "b", "]">>)

TextProseBlocks ==
  {TitleBlock, UrlBlock, HashBlock, LinkBlock, EmphasisLinkBlock, MixedLinkBlock, CharRefBlock,
   EscapedCharRefBlock, ReferenceBlock, ReferenceLinkBlock}
TextListBlocks == {BulletBlock, NumberedBlock, RepeatedItemsBlock, NestedListBlock}

\* the documents of 1 to n of the blocks, separated by blank lines, no list next to a list
RECURSIVE TextDocumentsOf(_)
TextDocumentsOf(n) ==
  IF n = 0 THEN {}
  ELSE LET shorter == TextDocumentsOf(n - 1)
       IN {<<b>> : b \in TextProseBlocks \cup TextListBlocks}
            \cup shorter
            \cup {Append(d, b) : d \in shorter, b \in TextProseBlocks}
            \cup {Append(d, b) : d \in {x \in shorter : x[Len(x)] \in TextProseBlocks},
                                 b \in TextListBlocks}

\* convert(text, "to_text") is called on the converter as constructed
InitText ==
  /\ NoSummary
  /\ NoService
  /\ \E d \in TextDocumentsOf(MaxBlocks) :
       data = [text |-> [type |-> "str", val |-> JoinWith(BlankLine, d)], mode |-> "to_text"]
  /\ cpc = "call"
  /\ converted = <<>>
  /\ called = {}
  /\ response = NoResponse
  /\ conversions = <<>>
  /\ now = 0
  /\ md = FreshMarkdown

NextText == CallConvert

SpecText == InitText /\ [][NextText]_vars

(***************************************************************************)
(* Calls of convert, one after the other, on the converter of the module   *)
(* (routes.py, line 12)                                                    *)
(***************************************************************************)
SharedTexts == {JoinWith(BlankLine, d) : d \in TextDocumentsOf(1)}

SharedCalls ==
  {[text |-> [type |-> "str", val |-> t], mode |-> m] : t \in SharedTexts, m \in ValidModes}

InitShared ==
  /\ NoSummary
  /\ NoService
  /\ data \in SharedCalls
  /\ cpc = "call"
  /\ converted = <<>>
  /\ called = {}
  /\ response = NoResponse
  /\ conversions = <<>>
  /\ now = 0
  /\ md = FreshMarkdown

\* the next call on the same converter, once the call before it has ended
CallAgain ==
  /\ cpc \in {"returned", "raised"}
  /\ data' \in SharedCalls
  /\ cpc' = "call"
  /\ converted' = <<>>
  /\ called' = {}
  /\ response' = NoResponse
  /\ UNCHANGED <<summarizer, conversions, now, md>>

NextShared == CallConvert \/ CallAgain

SpecShared == InitShared /\ [][NextShared]_vars

(***************************************************************************)
(* to_markdown, then to_text of its result                                 *)
(***************************************************************************)
\* "b"
WordBlock == Str(<<"b">>)
\* "1. a\n2. b"
OrderedBlock == Str(<<"1", ".", " ", "a", "\n", "2", ".", " ", "b">>)

\* "b\na b"
TwoLineBlock == Str(<<"b", "\n", "a", " ", "b">>)

HeadingBlocks == {TitleBlock, WordBlock, TwoLineBlock}
RoundTripListBlocks == {BulletBlock, OrderedBlock, RepeatedItemsBlock, NestedListBlock}

\* the documents of 1 to n heading-like lines and lists, no list next to a list
RECURSIVE RoundTripDocumentsOf(_)
RoundTripDocumentsOf(n) ==
  IF n = 0 THEN {}
  ELSE LET shorter == RoundTripDocumentsOf(n - 1)
       IN {<<b>> : b \in HeadingBlocks \cup RoundTripListBlocks}
            \cup shorter
            \cup {Append(d, b) : d \in shorter, b \in HeadingBlocks}
            \cup {Append(d, b) : d \in {x \in shorter : x[Len(x)] \in HeadingBlocks},
                                 b \in RoundTripListBlocks}

InitRoundTrip ==
  /\ NoSummary
  /\ NoService
  /\ \E d \in RoundTripDocumentsOf(MaxBlocks) :
       data = [text |-> [type |-> "str", val |-> JoinWith(BlankLine, d)], mode |-> "to_markdown"]
  /\ cpc = "call"
  /\ converted = <<>>
  /\ called = {}
  /\ response = NoResponse
  /\ conversions = <<>>
  /\ now = 0
  /\ md = FreshMarkdown

\* convert(converted, "to_text"): the markdown is in converted, the text in the response
ConvertBack ==
  /\ cpc = "returned"
  /\ ModeOf(data) = "to_markdown"
  /\ \E fault \in BOOLEAN :
       \E r \in {convert([type |-> "str", val |-> converted], "to_text", fault, md)} :
          /\ called' = called \cup r.called
          /\ md' = r.md
          /\ IF r.raised # ""
               THEN /\ response' = [NoResponse EXCEPT !.error = r.raised]
                    /\ cpc' = "raised"
             ELSE /\ response' = [NoResponse EXCEPT !.result = Some(r.value)]
                  /\ cpc' = "round_trip"
  /\ UNCHANGED <<summarizer, data, converted, conversions, now>>

NextRoundTrip == CallConvert \/ ConvertBack

SpecRoundTrip == InitRoundTrip /\ [][NextRoundTrip]_vars

(***************************************************************************)
(* to_markdown over documents of code paragraphs                           *)
(***************************************************************************)
Spaces4 == <<" ", " ", " ", " ">>
CodeTail == <<"\n", " ", " ", "a">>
\* "def a():\n    return 1"
DefBlock == Str(<<"def", " ", "a", "(", ")", ":", "\n">> \o Spaces4 \o <<"return", " ", "1">>)
\* "def a():\n  return a;"
SemicolonBlock ==
  Str(<<"def", " ", "a", "(", ")", ":", "\n", " ", " ", "return", " ", "a", ";">>)
\* "def a(*a, *b):"
StarArgsBlock == Str(<<"def", " ", "a", "(", "*", "a", ",", " ", "*", "b", ")", ":">>)
\* "public class a {\n  args\n}"
ClassBlock ==
  Str(<<"public", " ", "class", " ", "a", " ", "{", "\n", " ", " ", "args", "\n", "}">>)
\* "interface a {\n  a;\n}"
InterfaceBlock == Str(<<"interface", " ", "a", " ", "{", "\n", " ", " ", "a", ";", "\n", "}">>)
\* "<a>a.b(a</a>"
ElementBlock == Str(<<"<a>", "a", ".", "b", "(", "a", "</a>">>)
\* "a { b: c; }\n  a"
RuleBlock == Str(<<"a", " ", "{", " ", "b", ":", " ", "c", ";", " ", "}">> \o CodeTail)
\* "public a(args) {\n  a\n}"
MethodBlock ==
  Str(<<"public", " ", "a", "(", "args", ")", " ", "{">> \o CodeTail \o <<"\n", "}">>)
\* "public a {\n  Console\n}"
ConsoleBlock == Str(<<"public", " ", "a", " ", "{", "\n", " ", " ", "Console", "\n", "}">>)
\* "static a {\n  printf(a)\n}"
StaticBlock ==
  Str(<<"static", " ", "a", " ", "{", "\n", " ", " ", "printf", "(", "a", ")", "\n", "}">>)
\* "printf(cout)\n  a"
StreamBlock == Str(<<"printf", "(", "cout", ")">> \o CodeTail)
\* "select(a)\n  a"
QueryBlock == Str(<<"select", "(", "a", ")">> \o CodeTail)
\* "$ a(b)\n  a"
PromptBlock == Str(<<"$", " ", "a", "(", "b", ")">> \o CodeTail)
\* "a.b(http://x"
CallUrlBlock == Str(<<"a", ".", "b", "(", "http://x">>)

LanguageBlocks ==
  {DefBlock, SemicolonBlock, StarArgsBlock, ClassBlock, ScriptBlock, InterfaceBlock, ElementBlock, RuleBlock,
   MethodBlock, ConsoleBlock, StaticBlock, StreamBlock, QueryBlock, PromptBlock, CallBlock,
   CallUrlBlock, TitleBlock}

\* the documents of 1 to n of the blocks, separated by blank lines
RECURSIVE LanguageDocumentsOf(_)
LanguageDocumentsOf(n) ==
  IF n = 0 THEN {}
  ELSE LET shorter == LanguageDocumentsOf(n - 1)
       IN {<<b>> : b \in LanguageBlocks} \cup shorter
            \cup {Append(d, b) : d \in shorter, b \in LanguageBlocks}

\* convert(text, "to_markdown") is called
InitLanguage ==
  /\ NoSummary
  /\ NoService
  /\ \E d \in LanguageDocumentsOf(MaxBlocks) :
       data = [text |-> [type |-> "str", val |-> JoinWith(BlankLine, d)], mode |-> "to_markdown"]
  /\ cpc = "call"
  /\ converted = <<>>
  /\ called = {}
  /\ response = NoResponse
  /\ conversions = <<>>
  /\ now = 0
  /\ md = FreshMarkdown

NextLanguage == CallConvert

SpecLanguage == InitLanguage /\ [][NextLanguage]_vars

(***************************************************************************)
(* routes/routes.py: summarize_text, and requests that follow one another  *)
(* on the session of the application                                       *)
(***************************************************************************)
\* datetime.utcnow() advances by half the time to live
TimeStep == DATA_TTL \div 2
LastTick == MaxNow * DATA_TTL

\* the clock is read once in a request, when the record is made: time passes between
\* the requests
Tick ==
  /\ now < LastTick
  /\ cpc \in {"idle", "responded"} /\ pc \in {"idle", "responded"}
  /\ now' = now + TimeStep
  /\ UNCHANGED <<inputs, locals, pc, result, exc, path, invoked, faults, service, storage,
                 data, cpc, converted, called, response, conversions, md>>

\* lines 22-55: the validation of the request; text.strip() of a number or of a list
\* raises AttributeError, which the handler of lines 127-130 answers
SummarizeRequest ==
  /\ pc = "request"
  /\ IF text.type = "NoneType" THEN Respond(400, "Empty text provided") /\ pc' = "responded"
     ELSE IF text.type # "str" THEN Respond(500, "Server error") /\ pc' = "responded"
     ELSE IF Strip(text.val) = <<>>
       THEN Respond(400, "Empty text provided") /\ pc' = "responded"
     ELSE IF max_length.type = "str"
       THEN Respond(400, "max_length must be a valid integer") /\ pc' = "responded"
     ELSE IF max_length.type = "int" /\ max_length.val <= 0
       THEN Respond(400, "max_length must be a positive integer") /\ pc' = "responded"
     ELSE IF summary_type \notin SummaryTypes
       THEN Respond(400, "summary_type must be 'concise' or 'detailed'") /\ pc' = "responded"
     ELSE pc' = "call" /\ UNCHANGED <<response, cpc>>
  /\ UNCHANGED <<inputs, locals, result, exc, path, invoked, faults, service, storage,
                 data, converted, called, conversions, now, md>>

\* the summary, original_length and summary_length of the result
Metrics(r) ==
  [summary |-> r.summary, original_length |-> r.original_length,
   summary_length |-> r.summary_length]

\* lines 69-125; fault: the session (or count_words) raises, the handler rolls the
\* session back.  A session that was not rolled back raises at its next use.
StoreSummary ==
  /\ pc = "done"
  /\ \E fault \in BOOLEAN :
       IF fault \/ session # "clean"
         THEN /\ response' = [status |-> 200, error |-> "", result |-> Some(Metrics(result)),
                              warning |-> "Summary generated but not saved to database"]
              /\ session' = "clean"
              /\ log' = log \cup {"Database error"}
              /\ UNCHANGED summaries
       ELSE /\ summaries' = Append(summaries,
                 [id |-> NextId(summaries),
                  original_text |-> Slice(text.val, StoredChars),
                  summary_text |-> Slice(result.summary, StoredChars),
                  original_length |-> result.original_length,
                  summary_length |-> result.summary_length,
                  summary_type |-> summary_type,
                  created_at |-> now,
                  expires_at |-> Some(now + DATA_TTL)])
            /\ response' = [status |-> 200, error |-> "", result |-> Some(Metrics(result)),
                            warning |-> ""]
            /\ UNCHANGED <<session, log>>
  /\ pc' = "responded"
  /\ cpc' = "responded"
  /\ UNCHANGED <<inputs, locals, result, exc, path, invoked, faults, service,
                 data, converted, called, conversions, now, md>>

\* the requests of the endpoints
SummarizeRequests ==
  {[text |-> [type |-> "str", val |-> ShortSentence],
    max_length |-> [type |-> "NoneType", val |-> 0]],
   [text |-> [type |-> "str", val |-> ShortSentence \o StopThenContent],
    max_length |-> [type |-> "NoneType", val |-> 0]],
   [text |-> [type |-> "str", val |-> ShortSentence],
    max_length |-> [type |-> "int", val |-> 0]],
   [text |-> [type |-> "NoneType", val |-> <<>>],
    max_length |-> [type |-> "NoneType", val |-> 0]]}

MarkdownRequests ==
  {[text |-> [type |-> "str", val |-> TitleBlock], mode |-> m] : m \in {"to_markdown", "to_html"}}

\* the state of a request to /summarize (pos "request") or of none (pos "idle")
SummarizeArrives(r, pos) ==
  /\ text' = r.text
  /\ max_length' = r.max_length
  /\ summary_type' = "concise"
  /\ pc' = pos
  /\ cleaned_text' = <<>>
  /\ sentences' = <<>>
  /\ original_word_count' = -1
  /\ budget' = 0
  /\ sentence_scores' = NoScores
  /\ summary_sentences' = <<>>
  /\ result' = NoResult
  /\ exc' = ""
  /\ path' = ""
  /\ invoked' = {}
  /\ faults' = {}

NoRequest ==
  [text |-> [type |-> "str", val |-> <<>>], max_length |-> [type |-> "NoneType", val |-> 0]]

\* the next request arrives once the response is sent, while the tables hold fewer than
\* MAX_RECORDS_PER_TABLE records together
NewRequest ==
  /\ cpc = "responded"
  /\ Len(summaries) + Len(conversions) < MAX_RECORDS_PER_TABLE
  /\ \/ /\ \E r \in SummarizeRequests : SummarizeArrives(r, "request")
        /\ data' = [text |-> Absent, mode |-> NoMode]
        /\ cpc' = "idle"
     \/ /\ SummarizeArrives(NoRequest, "idle")
        /\ data' \in MarkdownRequests
        /\ cpc' = "request"
  /\ converted' = <<>>
  /\ called' = {}
  /\ response' = NoResponse
  /\ UNCHANGED <<service, storage, conversions, now, md>>

\* the application has answered no request yet
InitStore ==
  /\ NoSummary
  /\ NoService
  /\ data = [text |-> Absent, mode |-> NoMode]
  /\ cpc = "responded"
  /\ converted = <<>>
  /\ called = {}
  /\ response = NoResponse
  /\ conversions = <<>>
  /\ now = 0
  /\ md = FreshMarkdown

NextStore ==
  \/ NewRequest
  \/ SummarizeRequest
  \/ Validate \/ Clean \/ Tokenize \/ Budget \/ Score \/ Select \/ Finish \/ Except
  \/ StoreSummary
  \/ ValidateRequest \/ ConvertText \/ StoreConversion
  \/ Tick

SpecStore == InitStore /\ [][NextStore]_vars

(***************************************************************************)
(* services/cleanup.py: DataCleanupService.  The threads that call start() *)
(* and stop() are the domain of caller; a worker thread is "new" until it  *)
(* is started, then tests running ("loop"), performs a round ("round"),    *)
(* sleeps the interval ("sleep") and ends ("dead").                        *)
(***************************************************************************)
\* Thread.is_alive()
is_alive(t) == worker[t] \in {"loop", "round", "sleep"}

\* the thread that threading.Thread(...) creates
NewThread == CHOOSE t \in Threads : worker[t] = "new" /\ \A u \in Threads : worker[u] = "new" => t <= u

\* lines 30-32: the test of start(); a thread is left to create
StartCheck ==
  /\ \E t \in Threads : worker[t] = "new"
  /\ \E c \in DOMAIN caller :
       /\ caller[c] = "idle"
       /\ IF cleanup_thread # None /\ is_alive(cleanup_thread[1])
            THEN last_call' = "start" /\ UNCHANGED caller
          ELSE caller' = [caller EXCEPT ![c] = "start"] /\ UNCHANGED last_call
  /\ UNCHANGED <<inputs, locals, pc, result, exc, path, invoked, faults, storage,
                 data, cpc, converted, called, response, conversions, now, md,
                 running, cleanup_thread, worker, round>>

\* lines 34-37: the thread is created and started
StartThread ==
  /\ \E t \in Threads : worker[t] = "new"
  /\ \E c \in DOMAIN caller :
       /\ caller[c] = "start"
       /\ caller' = [caller EXCEPT ![c] = "idle"]
  /\ running' = TRUE
  /\ cleanup_thread' = Some(NewThread)
  /\ worker' = [worker EXCEPT ![NewThread] = "loop"]
  /\ last_call' = "start"
  /\ UNCHANGED <<inputs, locals, pc, result, exc, path, invoked, faults, storage,
                 data, cpc, converted, called, response, conversions, now, md, round>>

\* lines 41-42: stop() clears running
StopSignal ==
  /\ \E c \in DOMAIN caller :
       /\ caller[c] = "idle"
       /\ IF cleanup_thread = None
            THEN last_call' = "stop" /\ UNCHANGED caller
          ELSE caller' = [caller EXCEPT ![c] = "join"] /\ UNCHANGED last_call
  /\ running' = FALSE
  /\ UNCHANGED <<inputs, locals, pc, result, exc, path, invoked, faults, storage,
                 data, cpc, converted, called, response, conversions, now, md,
                 cleanup_thread, worker, round>>

\* lines 43-44: join(timeout=5.0) returns when the thread has ended, or after five
\* seconds while the worker sleeps its interval or performs a round
JoinReturn ==
  /\ cleanup_thread # None
  /\ worker[cleanup_thread[1]] \in {"dead", "round", "sleep"}
  /\ \E c \in DOMAIN caller :
       /\ caller[c] = "join"
       /\ caller' = [caller EXCEPT ![c] = "idle"]
  /\ last_call' = "stop"
  /\ UNCHANGED <<inputs, locals, pc, result, exc, path, invoked, faults, storage,
                 data, cpc, converted, called, response, conversions, now, md,
                 running, cleanup_thread, worker, round>>

\* line 52: while self.running
WorkerTest(t) ==
  /\ worker[t] = "loop"
  /\ worker' = [worker EXCEPT ![t] = IF running THEN "round" ELSE "dead"]
  /\ UNCHANGED <<inputs, locals, pc, result, exc, path, invoked, faults, storage,
                 data, cpc, converted, called, response, conversions, now, md,
                 running, cleanup_thread, caller, last_call, round>>

\* line 59: time.sleep(cleanup_interval) returns
WakeUp(t) ==
  /\ worker[t] = "sleep"
  /\ worker' = [worker EXCEPT ![t] = "loop"]
  /\ UNCHANGED <<inputs, locals, pc, result, exc, path, invoked, faults, storage,
                 data, cpc, converted, called, response, conversions, now, md,
                 running, cleanup_thread, caller, last_call, round>>

\* lines 153-164: _update_expiration_dates
update_expiration_dates(table, cutoff_time, t) ==
  [i \in 1..Len(table) |->
     IF table[i].expires_at # None THEN table[i]
     ELSE IF table[i].created_at <= cutoff_time THEN [table[i] EXCEPT !.expires_at = Some(t)]
     ELSE [table[i] EXCEPT !.expires_at = Some(table[i].created_at + DATA_TTL)]]

\* filter(expires_at <= now): a NULL compares with nothing
IsExpired(record, t) == record.expires_at # None /\ record.expires_at[1] <= t

\* the filter of the deletion with < in the place of <=
Expired_Strict(table, t) ==
  SelectSeq(table, LAMBDA r : r.expires_at # None /\ r.expires_at[1] < t)

\* lines 99-106: the records that .delete() removes
Expired(table, t) == SelectSeq(table, LAMBDA r : IsExpired(r, t))

Remove(table, gone) == SelectSeq(table, LAMBDA r : \A i \in 1..Len(gone) : gone[i].id # r.id)

\* the newest records in the place of the oldest
OldestOf_Newest(table, excess) ==
  {SubSeq(table, Len(table) - excess + 1, Len(table))}

\* lines 109-119, 125-135: order_by(created_at).limit(excess).all() when the count
\* exceeds max_records; the order of records of one created_at is the database's
OldestOf(table, excess) ==
  IF excess <= 0 THEN {<<>>}
  ELSE {SelectSeq(table, LAMBDA r : r.id \in S) :
          S \in {S \in SUBSET {table[i].id : i \in 1..Len(table)} :
                   /\ Cardinality(S) = excess
                   /\ \A i, j \in 1..Len(table) :
                        (table[i].id \in S /\ table[j].id \notin S)
                          => table[i].created_at <= table[j].created_at}}

\* the exception of a round ends the worker
CleanupRound_ErrorEnds(t) ==
  /\ worker[t] = "round"
  /\ round' = [NoRound EXCEPT !.status = "failed", !.at = now]
  /\ log' = log \cup {"Error during data cleanup"}
  /\ worker' = [worker EXCEPT ![t] = "dead"]
  /\ UNCHANGED <<inputs, locals, pc, result, exc, path, invoked, faults,
                 data, cpc, converted, called, response, conversions, now, md,
                 running, cleanup_thread, caller, last_call, summaries, session>>

\* lines 53-56 and 66-151: a round in its transaction, then the sleep; fault: the
\* round raises, its transaction is rolled back and the worker logs the error
CleanupRound(t) ==
  /\ worker[t] = "round"
  /\ \E fault \in BOOLEAN :
       IF fault
         THEN /\ round' = [NoRound EXCEPT !.status = "failed", !.at = now]
              /\ log' = log \cup {"Error during data cleanup"}
              /\ UNCHANGED <<summaries, conversions>>
       ELSE LET cutoff_time == now - DATA_TTL
                dated_summaries == update_expiration_dates(summaries, cutoff_time, now)
                dated_conversions == update_expiration_dates(conversions, cutoff_time, now)
                summary_deleted == Expired(dated_summaries, now)
                markdown_deleted == Expired(dated_conversions, now)
                kept_summaries == Remove(dated_summaries, summary_deleted)
                kept_conversions == Remove(dated_conversions, markdown_deleted)
            IN \E oldest_summaries \in
                    OldestOf(kept_summaries, Len(kept_summaries) - MAX_RECORDS_PER_TABLE),
                  oldest_conversions \in
                    OldestOf(kept_conversions, Len(kept_conversions) - MAX_RECORDS_PER_TABLE) :
                 /\ summaries' = Remove(kept_summaries, oldest_summaries)
                 /\ conversions' = Remove(kept_conversions, oldest_conversions)
                 /\ round' = [status |-> "completed", at |-> now,
                              summary_deleted |-> Len(summary_deleted),
                              markdown_deleted |-> Len(markdown_deleted),
                              summary_excess |-> Len(oldest_summaries),
                              markdown_excess |-> Len(oldest_conversions)]
                 /\ UNCHANGED log
  /\ worker' = [worker EXCEPT ![t] = "sleep"]
  /\ UNCHANGED <<inputs, locals, pc, result, exc, path, invoked, faults,
                 data, cpc, converted, called, response, now, md,
                 running, cleanup_thread, caller, last_call, session>>

Worker == \E t \in Threads : WorkerTest(t) \/ CleanupRound(t) \/ WakeUp(t)

\* a record of the table summaries made before the service starts
StoredSummary(created, expires) ==
  [id |-> 0, original_text |-> <<>>, summary_text |-> <<>>, original_length |-> 0,
   summary_length |-> 0, summary_type |-> "concise",
   created_at |-> created, expires_at |-> expires]

\* made by the endpoint, or before the column expires_at was added
StoredTimes == {0 - DATA_TTL, 0 - TimeStep, 0}

StoredSummaries ==
  {StoredSummary(c, None) : c \in StoredTimes}
    \cup {StoredSummary(c, Some(c + DATA_TTL)) : c \in StoredTimes}

\* the tables of at most n records, in the order of their creation
RECURSIVE TablesOf(_)
TablesOf(n) ==
  IF n = 0 THEN {<<>>}
  ELSE LET shorter == TablesOf(n - 1)
       IN shorter \cup
          {Append(t, [r EXCEPT !.id = Len(t) + 1]) :
             t \in {x \in shorter : Len(x) = n - 1},
             r \in StoredSummaries}

Ordered(table) ==
  \A i \in 1..(Len(table) - 1) : table[i].created_at <= table[i + 1].created_at

\* the service of run.py before start(), over a database of stored summaries
InitService ==
  /\ NoSummary
  /\ data = [text |-> Absent, mode |-> NoMode]
  /\ cpc = "responded"
  /\ converted = <<>>
  /\ called = {}
  /\ response = NoResponse
  /\ conversions = <<>>
  /\ now = 0
  /\ md = FreshMarkdown
  /\ running = FALSE
  /\ cleanup_thread = None
  /\ worker = [t \in Threads |-> "new"]
  /\ caller = [c \in {"main"} |-> "idle"]
  /\ last_call = ""
  /\ round = NoRound
  /\ summaries \in {t \in TablesOf(MAX_RECORDS_PER_TABLE + 1) : Ordered(t)}
  /\ session = "clean"
  /\ log = {}

NextService ==
  StartCheck \/ StartThread \/ StopSignal \/ JoinReturn \/ Worker \/ Tick

SpecService == InitService /\ [][NextService]_vars

\* the next request to /markdown arrives once the response is sent, while the table
\* holds at most MAX_RECORDS_PER_TABLE records and the ids of its records
NewConversion ==
  /\ cpc = "responded"
  /\ NextId(conversions) <= MAX_RECORDS_PER_TABLE + 1
  /\ data' = [text |-> [type |-> "str", val |-> TitleBlock], mode |-> "to_markdown"]
  /\ cpc' = "request"
  /\ converted' = <<>>
  /\ called' = {}
  /\ response' = NoResponse
  /\ UNCHANGED <<inputs, locals, pc, result, exc, path, invoked, faults, service, storage,
                 conversions, now, md>>

\* the application of run.py once the service is started, over a database without
\* summaries or with one summary more than the limit, made before the column
\* expires_at was added
InitCleanup ==
  /\ NoSummary
  /\ data = [text |-> Absent, mode |-> NoMode]
  /\ cpc = "responded"
  /\ converted = <<>>
  /\ called = {}
  /\ response = NoResponse
  /\ conversions = <<>>
  /\ now = 0
  /\ md = FreshMarkdown
  /\ running = TRUE
  /\ cleanup_thread = Some(1)
  /\ worker = [t \in Threads |-> IF t = 1 THEN "loop" ELSE "new"]
  /\ caller = [c \in {"main"} |-> "idle"]
  /\ last_call = "start"
  /\ round = NoRound
  /\ summaries \in {t \in TablesOf(MAX_RECORDS_PER_TABLE + 1) :
                      /\ Len(t) \in {0, MAX_RECORDS_PER_TABLE + 1}
                      /\ Ordered(t)
                      /\ \A i \in 1..Len(t) : t[i].expires_at = None}
  /\ session = "clean"
  /\ log = {}

NextCleanup ==
  Worker \/ Tick \/ NewConversion \/ ValidateRequest \/ ConvertText \/ StoreConversion

SpecCleanup == InitCleanup /\ [][NextCleanup]_vars

\* start() and stop() called by two threads
InitConcurrent ==
  /\ NoSummary
  /\ data = [text |-> Absent, mode |-> NoMode]
  /\ cpc = "responded"
  /\ converted = <<>>
  /\ called = {}
  /\ response = NoResponse
  /\ conversions = <<>>
  /\ now = 0
  /\ md = FreshMarkdown
  /\ running = FALSE
  /\ cleanup_thread = None
  /\ worker = [t \in Threads |-> "new"]
  /\ caller = [c \in {"main", "other"} |-> "idle"]
  /\ last_call = ""
  /\ round = NoRound
  /\ summaries \in {t \in TablesOf(1) : Ordered(t)}
  /\ session = "clean"
  /\ log = {}

NextConcurrent ==
  StartCheck \/ StartThread \/ StopSignal \/ JoinReturn \/ Worker \/ Tick

SpecConcurrent == InitConcurrent /\ [][NextConcurrent]_vars

\* one thread calls start() and stop() over a database of at most one summary
InitRounds ==
  /\ NoSummary
  /\ data = [text |-> Absent, mode |-> NoMode]
  /\ cpc = "responded"
  /\ converted = <<>>
  /\ called = {}
  /\ response = NoResponse
  /\ conversions = <<>>
  /\ now = 0
  /\ md = FreshMarkdown
  /\ running = FALSE
  /\ cleanup_thread = None
  /\ worker = [t \in Threads |-> "new"]
  /\ caller = [c \in {"main"} |-> "idle"]
  /\ last_call = ""
  /\ round = NoRound
  /\ summaries \in {t \in TablesOf(1) : \A i \in 1..Len(t) : t[i].created_at = 0}
  /\ session = "clean"
  /\ log = {}

NextRounds ==
  StartCheck \/ StartThread \/ StopSignal \/ JoinReturn \/ Worker \/ Tick

\* a started thread is scheduled, a round returns or raises, and
\* time.sleep(cleanup_interval) returns
WorkerRuns ==
  \A t \in Threads :
    WF_vars(WorkerTest(t)) /\ WF_vars(CleanupRound(t)) /\ WF_vars(WakeUp(t))

SpecRounds == InitRounds /\ [][NextRounds]_vars /\ WorkerRuns

(***************************************************************************)
(* Properties of summarize                                                 *)
(***************************************************************************)
Returned == pc = "done"

\* C1: a summary built from sentences has at most max(max_length, 1) words
\* (stated for the runs in which no stage raises)
C1_SummaryWithinBudget ==
  (Returned /\ path \notin {"short", "catch_all"} /\ faults = {})
    => result.summary_length <= Max(budget, 1)

\* C2: for a non-empty string, whatever stages raise, summarize does not raise, and
\* the returned original_length and summary_length are not negative
C2_NeverRaises ==
  (text.type = "str" /\ text.val # <<>>) =>
    /\ pc # "raised"
    /\ Returned => result.original_length >= 0 /\ result.summary_length >= 0

C2_Witness ==
  /\ Returned /\ text.type = "str" /\ path = "summary"
  /\ faults = {"clean_text", "sent_tokenize", "count_words", "score", "select"}

\* C3: the selected sentences are sentences of the tokenized text, in increasing
\* position, each at most once, and the summary is their join
C3_OrderPreserved ==
  (pc = "finish" \/ (Returned /\ path = "summary")) =>
    /\ \A j \in 1..Len(summary_sentences) : summary_sentences[j] \in 1..Len(sentences)
    /\ \A j, k \in 1..Len(summary_sentences) :
         j < k => summary_sentences[j] < summary_sentences[k]
    /\ Returned => result.summary = Join(Selected(sentences, summary_sentences))

C3_Witness ==
  /\ Returned /\ path = "summary" /\ faults = {}
  /\ Len(summary_sentences) >= 2
  /\ sentence_scores[summary_sentences[2]] > sentence_scores[summary_sentences[1]]

NoUrl(s) == \A i \in 1..Len(s) : ~IsUrl(s[i])

\* what cleaning establishes: no URL, single spaces, none at the ends, none before
\* closing punctuation or after "(", no repeated punctuation
IsClean(s) ==
  /\ NoUrl(s)
  /\ \A i \in 1..Len(s) : IsSpace(s[i]) => s[i].k = " " /\ i # 1 /\ i # Len(s)
  /\ \A i \in 1..(Len(s) - 1) :
       /\ ~(IsSpace(s[i]) /\ (IsSpace(s[i + 1]) \/ s[i + 1].k \in ClosingPunct))
       /\ ~(s[i].k = "(" /\ IsSpace(s[i + 1]))
       /\ ~(s[i].k \in RepeatPunct /\ s[i + 1].k \in RepeatPunct)

NumWords(s) == Cardinality({i \in 1..Len(s) : IsWord(s[i])})

\* C4 as claimed: on the short-text return the summary is the cleaned text and
\* summary_length equals original_length
C4_ShortLengthsEqual ==
  (Returned /\ path = "short" /\ faults = {}) =>
    /\ result.summary = cleaned_text
    /\ result.summary_length = result.original_length

\* C4 amended: on the short-text return the summary is the cleaned text, under 100
\* characters; summary_length is its word count and original_length the word count of
\* the raw input, equal when cleaning changes the outer whitespace alone
C4_ShortReturnsCleaned ==
  (Returned /\ path = "short") =>
    /\ result.summary = cleaned_text
    /\ CharLen(Strip(result.summary)) < ShortTextLimit
    /\ "clean_text" \notin faults =>
         /\ IsClean(result.summary)
         /\ result.summary_length = NumWords(result.summary)
    /\ result.original_length >= NumWords(text.val)
    /\ NoUrl(text.val) => result.original_length = NumWords(text.val)
    /\ result.summary = Strip(text.val) => result.summary_length = result.original_length

C4_Witness ==
  /\ Returned /\ path = "short" /\ faults = {}
  /\ ~NoUrl(text.val)
  /\ result.summary_length < result.original_length

\* C5: the derived budget is floor(0.3 c) clamped to [30, 200] for concise and
\* floor(0.6 c) clamped to [50, 500] for any other type
C5_DerivedBudget ==
  (original_word_count >= 0 /\ pc # "derive" /\ pc # "budget") =>
    LET c == original_word_count
        f3 == (3 * c) \div 10
        f6 == (6 * c) \div 10
    IN IF summary_type = "concise"
       THEN /\ budget = (IF f3 < 30 THEN 30 ELSE IF f3 > 200 THEN 200 ELSE f3)
            /\ budget \in 30..200
       ELSE /\ budget = (IF f6 < 50 THEN 50 ELSE IF f6 > 500 THEN 500 ELSE f6)
            /\ budget \in 50..500

C5_Witness ==
  /\ pc = "derived" /\ summary_type = "other"
  /\ original_word_count = 400 /\ budget = 240

EmptyResult == [summary |-> <<>>, original_length |-> 0, summary_length |-> 0, error |-> NoError]

\* C8: an empty or whitespace-only string returns the empty result at once, with no
\* error field and no stage invoked
C8_EmptyInput ==
  (text.type = "str" /\ Strip(text.val) = <<>>) =>
    /\ pc \in {"call", "done"}
    /\ invoked = {} /\ faults = {}
    /\ Returned => result = EmptyResult /\ path = "empty"

C8_Witness == Returned /\ text.type = "str" /\ text.val = BlankText /\ path = "empty"

\* C9: no fault leaves summarize, whatever the value of text
C9_NoFaultEscapes == pc # "raised"

RawPrefix(t) ==
  IF CharLen(t) > 500 THEN Slice(t, 500) \o <<Tok("...")>> ELSE t

\* C10: once the terminal handler is reached a result is returned, with the first 500
\* characters of the raw input as summary and an error field; no other result has one
C10_CatchAllResult ==
  /\ (pc = "raised" \/ path = "catch_all") =>
       /\ Returned
       /\ result.error # NoError
       /\ result.summary = RawPrefix(text.val)
  /\ (Returned /\ path # "catch_all") => result.error = NoError

(***************************************************************************)
(* Properties of the conversion                                            *)
(***************************************************************************)
Responded == cpc = "responded"
InvalidMode == ModeOf(data) \notin ValidModes
IsBlank == data.text.type = "str" /\ Strip(data.text.val) = <<>>
BlankToMarkdown == IsBlank /\ ModeOf(data) = "to_markdown"

\* C6: with a mode other than "to_markdown" and "to_text" no conversion function is
\* called, nothing is returned and no record is stored; convert raises the ValueError
\* "Unsupported conversion mode" whatever the text, the endpoint answers a text that is
\* not blank with 400 "Invalid conversion mode"; a conversion that fails while
\* processing has another outcome (another exception, 500 "Error converting text")
C6_InvalidMode ==
  /\ InvalidMode =>
       /\ called = {} /\ converted = <<>> /\ conversions = <<>>
       /\ response.result = None
       /\ cpc # "returned"
       /\ cpc = "raised" => response.error = "Unsupported conversion mode"
       /\ Responded => response.status # 200
       /\ (Responded /\ data.text.type = "str" /\ ~IsBlank) =>
            response.status = 400 /\ response.error = "Invalid conversion mode"
  /\ response.error \in {"Invalid conversion mode", "Unsupported conversion mode"} => InvalidMode
  /\ response.error = "Error converting text" =>
       ~InvalidMode /\ response.status = 500 /\ called # {}
  /\ (cpc = "raised" /\ ~InvalidMode) =>
       response.error \in {"AttributeError", "Exception"} /\ called # {}

\* the endpoint has answered a request with an unsupported mode
C6_Witness ==
  /\ Responded
  /\ data.mode = "to_html"
  /\ response.status = 400
  /\ response.error = "Invalid conversion mode"

\* C7 as stated: a blank text with mode "to_markdown" ends in an error and in no result
C7_BlankIsError ==
  (BlankToMarkdown /\ cpc \in {"responded", "returned", "raised"}) =>
    response.error # "" /\ response.result = None

\* C7: a blank text with mode "to_markdown" never raises; the endpoint answers it with
\* 400 "Empty text provided" without converting or storing anything, convert itself
\* returns the empty string and reports no error
C7_BlankToMarkdown ==
  BlankToMarkdown =>
    /\ cpc # "raised"
    /\ Responded =>
         /\ response.status = 400 /\ response.error = "Empty text provided"
         /\ response.result = None
         /\ called = {} /\ conversions = <<>>
    /\ cpc = "returned" =>
         response.result = Some(<<>>) /\ response.error = "" /\ called = {"to_markdown"}

\* convert has returned from a text of whitespace
C7_Witness ==
  /\ cpc = "returned"
  /\ BlankToMarkdown
  /\ data.text.val # <<>>
  /\ response.result = Some(<<>>)

(***************************************************************************)
(* Properties of to_markdown                                               *)
(***************************************************************************)
MarkdownReturned ==
  cpc = "returned" /\ data.text.type = "str" /\ ModeOf(data) = "to_markdown"

\* the paragraphs of the text, and the parts of the result between blank lines
InputParagraphs == paragraphs(Strip(data.text.val))
OutputParagraphs == paragraphs(converted)

LinesOf(para) == split_lines(Strip(para))
IsCode(para) == is_code_block(para, LinesOf(para))
IsList(para) == AllBullets(LinesOf(para)) \/ AllNumbered(LinesOf(para))
Fenced(out) == out # <<>> /\ out[1].k = "fence" /\ out[Len(out)].k = "fence"

NoMarkup(para) ==
  /\ \A i \in 1..Len(para) : ~IsUrl(para[i]) /\ para[i].k # "_"
  /\ Cardinality({i \in 1..Len(para) : para[i].k = "*"}) <= 1

EarlierHeading(paras, i, j) ==
  \E i2 \in 1..i : \E j2 \in 1..Len(LinesOf(paras[i2])) :
    /\ (i2 < i \/ j2 < j)
    /\ Strip(LinesOf(paras[i2])[j2]) # <<>>
    /\ LooksLikeHeading(Strip(LinesOf(paras[i2])[j2]))

\* paragraph i with the first heading-like line of the document behind "# " and every
\* later one behind "## "
PromotedOnce(paras, i) ==
  JoinWith(Newline,
    [j \in 1..Len(LinesOf(paras[i])) |->
       LET line == Strip(LinesOf(paras[i])[j])
       IN IF line = <<>> THEN <<>>
          ELSE IF LooksLikeHeading(line)
               THEN (IF EarlierHeading(paras, i, j) THEN <<Tok("#"), Tok("#"), Tok(" ")>>
                     ELSE <<Tok("#"), Tok(" ")>>) \o line
          ELSE line])

\* C16: in a document of prose paragraphs the first heading-like line of the document
\* becomes "# line" and every later heading-like line "## line"
C16_OneTopLevelHeading ==
  (MarkdownReturned
     /\ \A i \in 1..Len(InputParagraphs) :
          ~IsCode(InputParagraphs[i]) /\ ~IsList(InputParagraphs[i])) =>
    /\ Len(OutputParagraphs) = Len(InputParagraphs)
    /\ \A i \in 1..Len(InputParagraphs) :
         OutputParagraphs[i] = enhance_formatting(PromotedOnce(InputParagraphs, i))

Contains(s, sub) ==
  \E k \in 0..(Len(s) - Len(sub)) : SubSeq(s, k + 1, k + Len(sub)) = sub

\* the run of non-whitespace characters that starts with the token k
RunAt(s, k) ==
  LET tail == SubSeq(s, k, Len(s))
  IN SubSeq(tail, 1, Len(tail) - Len(DropNonSpaces(tail)))

\* C17: every bare URL u of a prose paragraph is in the result as [u](u)
C17_UrlsBecomeLinks ==
  MarkdownReturned =>
    \A i \in 1..Len(InputParagraphs) :
      LET para == InputParagraphs[i]
      IN (~IsCode(para) /\ ~IsList(para)) =>
           \A k \in 1..Len(para) :
             (IsUrl(para[k]) /\ (k > 1 => IsSpace(para[k - 1]))) =>
               Contains(converted,
                        <<Tok("[")>> \o RunAt(para, k) \o <<Tok("](")>> \o RunAt(para, k)
                          \o <<Tok(")")>>)

\* C19: a paragraph is fenced exactly when the code check holds, also when it is a list;
\* else it is kept as a list when the bullet check or the numbered check holds; else it
\* is formatted as prose
C19_ClassOrder ==
  MarkdownReturned =>
    /\ Len(OutputParagraphs) = Len(InputParagraphs)
    /\ \A i \in 1..Len(InputParagraphs) :
         LET para == InputParagraphs[i]
             out == OutputParagraphs[i]
         IN /\ Fenced(out) <=> IsCode(para)
            /\ IsCode(para) =>
                 out = enhance_formatting(<<Tok("fence")>> \o detect_language(para, LinesOf(para))
                                            \o Newline \o para \o Newline \o <<Tok("fence")>>)
            /\ (~IsCode(para) /\ IsList(para)) => out = enhance_formatting(para)
            /\ (~IsCode(para) /\ ~IsList(para)) =>
                 out = enhance_formatting(JoinWith(Newline, processed_lines(LinesOf(para))))

\* a paragraph that passes the code check and the bullet check has been fenced
C19_Witness ==
  /\ MarkdownReturned
  /\ \E i \in 1..Len(InputParagraphs) :
       /\ IsCode(InputParagraphs[i])
       /\ AllBullets(LinesOf(InputParagraphs[i]))
       /\ Fenced(OutputParagraphs[i])

\* the score as C20 states it: the comment markers are "#", "//" and "/*"
ClaimedComment(t) ==
  LET ls == split_lines(t)
  IN \E i \in 1..Len(ls) :
       LStrip(ls[i]) # <<>> /\ Head(LStrip(ls[i])).k \in {"#", "//", "/*"}

ClaimedScore(t, lines) ==
  (IF HasKind(t, LanguageConstructs) THEN 5 ELSE 0)
    + (IF HasAssignment(t) THEN 3 ELSE 0)
    + (IF \E i \in 1..Len(t) : t[i].k \in BracketKinds THEN 2 ELSE 0)
    + (IF \E i \in 1..Len(lines) : Indented(lines[i]) THEN 3 ELSE 0)
    + Cardinality({keyword \in ProgrammingKeywords : HasKind(t, {keyword})})
    + (IF ClaimedComment(t) THEN 3 ELSE 0)
    + (IF HasMethodCall(t) THEN 4 ELSE 0)
    + (IF Len(lines) >= 2 /\ AnyLineHas(lines, {"="}) /\ AnyLineHas(lines, {".", "..."})
       THEN 2 ELSE 0)

\* C20: a paragraph is fenced as code exactly when the stated signals sum to 5 or more
C20_ScoreSignals ==
  MarkdownReturned =>
    /\ Len(OutputParagraphs) = Len(InputParagraphs)
    /\ \A i \in 1..Len(InputParagraphs) :
         Fenced(OutputParagraphs[i])
           <=> ClaimedScore(InputParagraphs[i], LinesOf(InputParagraphs[i])) >= CodeThreshold

(***************************************************************************)
(* Properties of to_text                                                   *)
(***************************************************************************)
TextReturned ==
  cpc = "returned" /\ data.text.type = "str" /\ ModeOf(data) = "to_text"

\* C11 as stated: a call on the shared converter returns what the same call returns on
\* a converter of its own, whatever calls came before it
C11_CallsIndependent ==
  cpc = "returned" =>
    converted = convert(data.text, ModeOf(data), FALSE, FreshMarkdown).value

\* the 1-based position of line j among the items of its own list
SiblingPosition(lines, j) ==
  IF IsNested(lines[j])
  THEN Cardinality({i \in 1..j : \A m \in i..j : IsNested(lines[m])})
  ELSE Cardinality({i \in 1..j : ~IsNested(lines[i])})

\* C12 as stated: every item of a numbered list is in the text behind "k. ", k its
\* position among the items of its list
C12_SiblingPosition ==
  TextReturned =>
    \A p \in 1..Len(InputParagraphs) :
      LET lines == LinesOf(InputParagraphs[p])
      IN AllNumbered(lines) =>
           \A j \in 1..Len(lines) :
             Contains(converted,
                      <<Tok(Numerals[SiblingPosition(lines, j)]), Tok("."), Tok(" ")>>
                        \o ItemText(lines[j]))

\* C13 as stated: every link with an href is in the text as "<text> (<href>)"
C13_LinksShowHref ==
  TextReturned =>
    \A p \in 1..Len(InputParagraphs) :
      \A i \in 1..Len(InputParagraphs[p]) :
        LET para == InputParagraphs[p]
            link == LinkAt(SubSeq(para, i, Len(para)), ReferencesOf(data.text.val))
        IN link.len > 0 =>
             Contains(converted,
                      InlineText(link.inner, {}) \o <<Tok(" "), Tok("(")>> \o link.href
                        \o <<Tok(")")>>)

\* C14 as stated: the text has no three newlines in a row and no whitespace at its ends
C14_NoExcessNewlines ==
  TextReturned =>
    /\ Strip(converted) = converted
    /\ ~Contains(converted, <<Tok("\n"), Tok("\n"), Tok("\n")>>)

\* the pieces are in s one after the other
RECURSIVE InOrder(_, _)
InOrder(s, pieces) ==
  IF pieces = <<>> THEN TRUE
  ELSE LET piece == Head(pieces)
       IN \E i \in 1..(Len(s) - Len(piece) + 1) :
            /\ SubSeq(s, i, i + Len(piece) - 1) = piece
            /\ InOrder(SubSeq(s, i + Len(piece), Len(s)), Tail(pieces))

\* a heading-like line as its text, a list item as its marker and its text: "- " for a
\* bullet, the number it has in x and ". " for a numbered item
MarkedText(line) ==
  LET l == LStrip(line)
  IN IF IsBullet(line) THEN <<Tok("-"), Tok(" ")>> \o ItemText(line)
     ELSE IF IsNumbered(line)
       THEN SubSeq(l, 1, Len(l) - Len(DropDigits(l))) \o <<Tok("."), Tok(" ")>> \o ItemText(line)
     ELSE Strip(line)

\* C18 as stated: the text of the round trip holds every heading and every list item of
\* x in the order of x, each item behind its marker
C18_RoundTrip ==
  cpc = "round_trip" =>
    LET lines == split_lines(Strip(data.text.val))
        kept == SelectSeq(lines, LAMBDA line : Strip(line) # <<>>)
    IN InOrder(response.result[1], [j \in 1..Len(kept) |-> MarkedText(kept[j])])

(***************************************************************************)
(* Properties of the code paragraphs of to_markdown                        *)
(***************************************************************************)
\* the checks of the languages in their order: whether the check gives a tag, and the tag
LanguageChecks(para) ==
  LET java == HasKind(para, JavaWords) /\ LineEndsWith(para, "{")
  IN << [hit |-> HasKind(para, PythonWords) \/ LineEndsWith(para, ":"), tag |-> "py"],
        [hit |-> HasKind(para, JavaScriptWords) \/ LineEndsWith(para, ";"),
         tag |-> IF IsTypeScript(para) THEN "ts" ELSE "js"],
        [hit |-> HasHtmlElement(para), tag |-> "html"],
        [hit |-> HasCssRule(para), tag |-> "css"],
        [hit |-> java /\ (HasKind(para, JavaNames) \/ HasKind(para, CSharpNames)),
         tag |-> IF HasKind(para, JavaNames) THEN "java" ELSE "csharp"],
        [hit |-> HasKind(para, CWords),
         tag |-> IF HasKind(para, CppWords) THEN "cpp" ELSE "tag:c"],
        [hit |-> HasKind(para, SqlWords), tag |-> "sql"],
        [hit |-> StartsLikeShell(para) \/ HasKind(para, ShellWords), tag |-> "bash"] >>

\* the tokens of the first line of a fenced paragraph after its fence
TagOf(out) == SubSeq(out, 2, Find(out, "\n") - 1)

\* C21: a code paragraph is behind a fence with the tag of the first check that gives
\* one, no tag when none does; "def a():\n    return 1" is fenced and tagged py
C21_FirstMatchingLanguage ==
  MarkdownReturned =>
    /\ Len(OutputParagraphs) = Len(InputParagraphs)
    /\ \A i \in 1..Len(InputParagraphs) :
         LET para == InputParagraphs[i]
             checks == LanguageChecks(para)
             hits == {c \in 1..Len(checks) : checks[c].hit}
         IN IsCode(para) =>
              /\ Fenced(OutputParagraphs[i])
              /\ \A c \in hits :
                   (\A e \in hits : c <= e) => TagOf(OutputParagraphs[i]) = <<Tok(checks[c].tag)>>
              /\ hits = {} => TagOf(OutputParagraphs[i]) = <<>>
    /\ data.text.val = DefBlock =>
         converted = <<Tok("fence"), Tok("py")>> \o Newline \o DefBlock \o Newline \o <<Tok("fence")>>

\* a paragraph that passes the check of Python and the one of Java has been tagged py
C21_Witness ==
  /\ MarkdownReturned
  /\ data.text.val = ClassBlock
  /\ LanguageChecks(ClassBlock)[1].hit /\ LanguageChecks(ClassBlock)[5].hit
  /\ TagOf(converted) = <<Tok("py")>>

\* C24 as stated: between the fences of a code paragraph is the paragraph as it was
C24_CodeUnchanged ==
  MarkdownReturned =>
    /\ Len(OutputParagraphs) = Len(InputParagraphs)
    /\ \A i \in 1..Len(InputParagraphs) :
         LET para == InputParagraphs[i]
             out == OutputParagraphs[i]
         IN IsCode(para) =>
              /\ Fenced(out)
              /\ SubSeq(out, Find(out, "\n") + 1, Len(out) - 2) = para

(***************************************************************************)
(* Properties of the selection of summarize                                *)
(***************************************************************************)
\* the summary that replaces an empty one: the cleaned text, cut at 500 characters
CutCleaned(cleaned) ==
  IF CharLen(cleaned) > FallbackChars THEN Slice(cleaned, FallbackChars) \o <<Tok("...")>>
  ELSE cleaned

RECURSIVE PrefixWords(_, _)
PrefixWords(sents, k) ==
  IF k = 0 THEN 0 ELSE PrefixWords(sents, k - 1) + count_words(sents[k])

\* the length of the longest prefix of the sentences within the limit
LongestPrefix(sents, limit) ==
  CHOOSE k \in 0..Len(sents) :
    /\ PrefixWords(sents, k) <= limit
    /\ \A j \in (k + 1)..Len(sents) : PrefixWords(sents, j) > limit

SummaryStored == pc = "done" /\ pc' = "responded"
ConversionStored == cpc = "store" /\ cpc' = "responded"

\* the last record of the table is new, made at the time of the request
Inserted(before, after) ==
  /\ Len(after) = Len(before) + 1
  /\ SubSeq(after, 1, Len(before)) = before
  /\ after[Len(after)].created_at = now
  /\ after[Len(after)].expires_at = Some(now + DATA_TTL)

AliveWorkers == {t \in Threads : is_alive(t)}

\* C25 as stated: when the call that returned last is start(), and no call is in
\* progress, running is True and a worker thread is alive
C25_StartRestarts ==
  (last_call = "start" /\ \A c \in DOMAIN caller : caller[c] = "idle")
    => running /\ AliveWorkers # {}

\* C26 as stated: at most one worker thread is alive
C26_OneWorker == Cardinality(AliveWorkers) <= 1

\* the step in which a worker completes a round
RoundCompleted ==
  \E t \in Threads :
    worker[t] = "round" /\ worker'[t] = "sleep" /\ round'.status = "completed"

\* the expires_at a record has once the round at time t has dated it
Expiry(record, t) ==
  IF record.expires_at # None THEN record.expires_at[1]
  ELSE IF record.created_at <= t - DATA_TTL THEN t
  ELSE record.created_at + DATA_TTL

\* the records of the table that the round at time t leaves to the limit step
Live(table, t) ==
  LET live == SelectSeq(table, LAMBDA r : Expiry(r, t) > t)
  IN [i \in 1..Len(live) |-> [live[i] EXCEPT !.expires_at = Some(Expiry(live[i], t))]]

Ids(table) == {table[i].id : i \in 1..Len(table)}

\* every record left has an expires_at later than now; a record whose expires_at,
\* once dated, is not later than now is gone; one whose expires_at is later is left,
\* dated, unless the limit step removes it
TtlStep(before, after) ==
  /\ \A i \in 1..Len(after) :
       after[i].expires_at # None /\ after[i].expires_at[1] > now
  /\ \A i \in 1..Len(before) :
       Expiry(before[i], now) <= now => before[i].id \notin Ids(after)
  /\ \A i \in 1..Len(after) : after[i] \in Range(Live(before, now))
  /\ Len(Live(before, now)) <= MAX_RECORDS_PER_TABLE => after = Live(before, now)

LimitStep(before, after) ==
  LET live == Live(before, now)
      removed == SelectSeq(live, LAMBDA r : r.id \notin Ids(after))
  IN /\ Len(after) <= MAX_RECORDS_PER_TABLE
     /\ Len(after) = Min(Len(live), MAX_RECORDS_PER_TABLE)
     /\ \A i \in 1..Len(removed), j \in 1..Len(after) :
          after[j].created_at >= removed[i].created_at

\* C28: a completed round leaves at most MAX_RECORDS_PER_TABLE records in each table,
\* and the records it removes for the limit are the oldest by created_at
C28_LimitEnforced ==
  [][RoundCompleted => LimitStep(summaries, summaries') /\ LimitStep(conversions, conversions')]_vars

\* the requests have stored more conversions than the limit, and a round has removed
\* the oldest of them
C28_Witness ==
  /\ round.status = "completed" /\ round.at = now
  /\ round.markdown_excess >= 1
  /\ \E t \in Threads : worker[t] = "sleep"
  /\ Len(conversions) = MAX_RECORDS_PER_TABLE
  /\ conversions[1].id > 1

\* the step in which the worker t leaves its round
RoundEnds(t) == worker[t] = "round" /\ worker'[t] # "round"

\* C29: a round that raises leaves the tables as they were, logs the error and leaves
\* the worker asleep for the interval; a live worker that is not in a round reaches
\* its next round unless running is cleared
C29_RoundsRecur ==
  /\ [][\A t \in Threads :
          (RoundEnds(t) /\ round'.status = "failed")
            => /\ worker'[t] = "sleep"
               /\ summaries' = summaries
               /\ conversions' = conversions
               /\ "Error during data cleanup" \in log']_vars
  /\ \A t \in Threads :
       (is_alive(t) /\ worker[t] # "round") ~> (worker[t] = "round" \/ ~running)

\* the service runs and a worker is in the round after one that raised
C29_Witness ==
  /\ running
  /\ round.status = "failed"
  /\ "Error during data cleanup" \in log
  /\ \E t \in Threads : worker[t] = "round"


====
